---- MODULE Spec2Model ----
(***************************************************************************)
(* Verification model of the ClimatIQ decision controllers.                *)
(*                                                                         *)
(*  - ClimatIQController (appdaemon/apps/climatiq_controller.py): the      *)
(*    per-room control cycle with cooldown and emergency override.         *)
(*  - Controller (climatiq/core/controller.py): the global strategy        *)
(*    controller with should_act / decide_action / execute_action.         *)
(*                                                                         *)
(* Temperatures are fixed-point tenths of a Kelvin (1.5 K = 15), times are *)
(* whole minutes, power is whole Watts, risk scores are hundredths.        *)
(***************************************************************************)
EXTENDS Integers, Sequences, FiniteSets, TLC

\* ------------------------------------------------------------------------
\* Bounds
\* ------------------------------------------------------------------------
MaxTime == 7

MaxEmergencyTime == 3

MaxClock == 11

MaxActions == 2

MaxDecisions == 2

MaxComfortTime == 4

MaxSamples == 4

MaxHistorySamples == 11
\* update_power calls in the run that fills the Observer's window (120 samples)
MaxWindowSamples == 122

\* ------------------------------------------------------------------------
\* Generic helpers
\* ------------------------------------------------------------------------
Abs(x) == IF x < 0 THEN 0 - x ELSE x

Min2(a, b) == IF a < b THEN a ELSE b

Max2(a, b) == IF a > b THEN a ELSE b

RECURSIVE SumSeq(_)
SumSeq(s) ==
    IF Len(s) = 0 THEN 0
    ELSE IF Len(s) = 1 THEN s[1]
    ELSE LET mid == Len(s) \div 2
         IN  SumSeq(SubSeq(s, 1, mid)) + SumSeq(SubSeq(s, mid + 1, Len(s)))

\* ========================================================================
\* ClimatIQController (appdaemon/apps/climatiq_controller.py)
\* ========================================================================
VARIABLES now, last_action_time, rules, unstable_zones, cyc

\* self.outdoor_units, and the states Home Assistant holds for the power
\* sensors and the outdoor temperature sensor
VARIABLES outdoor_units, sensors

appVars == <<now, last_action_time, rules, unstable_zones, cyc, outdoor_units, sensors>>

\* self.rooms: the configured rooms, in dict (iteration) order.
RoomOrder == <<"living", "bedroom">>

Rooms == {RoomOrder[i] : i \in DOMAIN RoomOrder}

\* last_action_time.get(name, datetime.min): the sentinel for "never".
NoTime == -1

\* rules["hysteresis"] without the key emergency_action_interval_minutes.
NotConfigured == -1

\* A configured value of any YAML type: kind is "absent" (key missing),
\* "num" (int or finite float, val in tenths), "nan" (float nan),
\* "str" or "none".
CfgValue(k, v) == [kind |-> k, val |-> v]

\* ---- inputs read from Home Assistant in one cycle -----------------------
\* a room reading: delta = current_temp - target_temp (tenths of K),
\* target_temp (tenths of a degree), is_on (hvac_mode not off/unknown).
Reading(d, t, on) == [delta |-> d, target_temp |-> t, is_on |-> on]

RoomReadings ==
    { Reading(-40, 210, FALSE),   \* very cold, unit off
      Reading(-20, 240, TRUE),    \* cold, on, target already at target_max
      Reading(-20, 210, FALSE),   \* cold, unit off
      Reading(0, 210, TRUE),      \* on target, on
      Reading(15, 210, TRUE),     \* warm, on
      Reading(30, 210, TRUE) }    \* overheated, on

CooldownReadings ==
    { Reading(-40, 210, FALSE),   \* very cold, unit off
      Reading(-30, 210, TRUE),    \* cold, on
      Reading(0, 210, TRUE),      \* on target, on
      Reading(15, 210, TRUE) }    \* warm, on

Powers == {400, 1200, 1800}

\* the state of a sensor as get_state returns it: "unknown", "unavailable",
\* None ("none") or the text of a number ("num", val in Watts or tenths
\* of a degree)
SensorState(kind, val) == [kind |-> kind, val |-> val]

Unavailable == {"unknown", "unavailable", "none"}

\* outdoor units, each with the name of its power sensor
SingleUnit == <<"sensor.ac_power">>

TwoUnits == <<"sensor.ac1_power", "sensor.ac2_power">>

PowerSensors == {"sensor.ac_power", "sensor.ac1_power", "sensor.ac2_power"}

AllSensors == PowerSensors \cup {"outdoor_temp"}

\* every sensor reports a number
AllAvailable ==
    [sensor \in AllSensors |->
        IF sensor = "outdoor_temp" THEN SensorState("num", 50)
        ELSE SensorState("num", 400)]

InitSensors(units) ==
    /\ outdoor_units \in units
    /\ sensors = AllAvailable

\* ---- get_total_power ---------------------------------------------------
\* None
NoPower == -1

\* a unit without a power sensor has the name ""
NotReported(sensor, states) == sensor = "" \/ states[sensor].kind \in Unavailable

\* the sum over the units whose sensor reports a number
RECURSIVE AggregatePower(_, _, _)
AggregatePower(units, states, i) ==
    IF i > Len(units) THEN 0
    ELSE (IF NotReported(units[i], states) THEN 0 ELSE states[units[i]].val)
         + AggregatePower(units, states, i + 1)

get_total_power(units, states) ==
    IF Len(units) = 1
    THEN IF NotReported(units[1], states) THEN NoPower ELSE states[units[1]].val
    ELSE AggregatePower(units, states, 1)

\* ---- zones --------------------------------------------------------------
Zone(lo, hi) == [min |-> lo, max |-> hi]

FallbackUnstableZones == <<Zone(1000, 1500)>>

\* faulty variant: the loop returns after the first zone
_is_in_unstable_zone_first_only(power) ==
    /\ unstable_zones # <<>>
    /\ unstable_zones[1].min <= power /\ power <= unstable_zones[1].max

_is_in_unstable_zone(power) ==
    \E i \in DOMAIN unstable_zones :
        unstable_zones[i].min <= power /\ power <= unstable_zones[i].max

\* ---- get_current_state --------------------------------------------------
total_delta_abs(rooms) ==
    SumSeq([i \in DOMAIN RoomOrder |-> Abs(rooms[RoomOrder[i]].delta)])

get_current_state(power, rooms) ==
    [power |-> power, rooms |-> rooms, total_delta_abs |-> total_delta_abs(rooms)]

\* ---- emergency threshold (control_cycle) --------------------------------
DefaultEmergencyThreshold == CfgValue("num", 60)

\* rules.get("stability", {}).get("emergency_delta_threshold", 6.0)
ConfiguredThreshold(r) ==
    IF r.emergency_delta_threshold.kind = "absent"
    THEN DefaultEmergencyThreshold
    ELSE r.emergency_delta_threshold

\* faulty variant: the validation rejects negative values only (x < 0)
ThresholdInvalid_negative_only(x) ==
    \/ x.kind \notin {"num", "nan"}
    \/ (x.kind = "num" /\ x.val < 0)

\* not isinstance(x, (int, float)) or x <= 0; a float nan is a float and
\* nan <= 0 is False.
ThresholdInvalid(x) ==
    \/ x.kind \notin {"num", "nan"}
    \/ (x.kind = "num" /\ x.val <= 0)

EmergencyThreshold(r) ==
    IF ThresholdInvalid(ConfiguredThreshold(r))
    THEN DefaultEmergencyThreshold
    ELSE ConfiguredThreshold(r)

\* state["total_delta_abs"] > emergency_threshold (False against nan)
IsEmergency(state, threshold) ==
    threshold.kind = "num" /\ state.total_delta_abs > threshold.val

\* ---- decide_actions -----------------------------------------------------
operating_mode == "heat"

CooldownMinutes(r, is_emergency) ==
    IF is_emergency
    THEN (IF r.emergency_action_interval_minutes = NotConfigured
          THEN 7
          ELSE r.emergency_action_interval_minutes)
    ELSE r.min_action_interval_minutes

\* faulty variant: the emergency cooldown is applied to every cycle
CooldownActive_emergency_always(last, t, r, is_emergency) ==
    last # NoTime /\ t - last < CooldownMinutes(r, TRUE)

\* time_since_last < cooldown, with last = datetime.min when never acted
CooldownActive(last, t, r, is_emergency) ==
    last # NoTime /\ t - last < CooldownMinutes(r, is_emergency)

Action(room, type, reason, old, new) ==
    [room |-> room, action_type |-> type, reason |-> reason,
     old_target |-> old, new_target |-> new]

\* faulty variant: the raised target is not clamped to target_max
ComfortActions_unclamped(name, room, r) ==
    IF room.delta < 0 - r.temp_tolerance_cold
    THEN IF ~room.is_on
         THEN <<Action(name, "turn_on", "too_cold", 0, 0)>>
         ELSE LET new_target == room.target_temp + r.target_step
              IN  IF new_target # room.target_temp
                  THEN <<Action(name, "adjust_target", "too_cold",
                                room.target_temp, new_target)>>
                  ELSE <<>>
    ELSE IF room.delta > r.temp_tolerance_warm
    THEN IF room.is_on
         THEN LET new_target == Max2(room.target_temp - r.target_step, r.target_min)
              IN  IF new_target # room.target_temp
                  THEN <<Action(name, "adjust_target", "too_warm",
                                room.target_temp, new_target)>>
                  ELSE <<>>
         ELSE <<>>
    ELSE <<>>

ComfortActions(name, room, r) ==
    IF room.delta < 0 - r.temp_tolerance_cold
    THEN IF ~room.is_on
         THEN <<Action(name, "turn_on", "too_cold", 0, 0)>>
         ELSE LET new_target == Min2(room.target_temp + r.target_step, r.target_max)
              IN  IF new_target # room.target_temp
                  THEN <<Action(name, "adjust_target", "too_cold",
                                room.target_temp, new_target)>>
                  ELSE <<>>
    ELSE IF room.delta > r.temp_tolerance_warm
    THEN IF room.is_on
         THEN LET new_target == Max2(room.target_temp - r.target_step, r.target_min)
              IN  IF new_target # room.target_temp
                  THEN <<Action(name, "adjust_target", "too_warm",
                                room.target_temp, new_target)>>
                  ELSE <<>>
         ELSE <<>>
    ELSE <<>>

StabilityActions(name, room, power) ==
    IF power < 500 /\ ~room.is_on /\ room.delta < -5
    THEN <<Action(name, "turn_on", "stability", 0, 0)>>
    ELSE <<>>

\* faulty variant: the overheating branch does not end the room's iteration
RoomActions_no_continue(name, state, is_emergency, is_night_mode, last, t, r) ==
    LET room == state.rooms[name] IN
    IF CooldownActive(last[name], t, r, is_emergency) THEN <<>>
    ELSE IF is_night_mode /\ room.is_on /\ room.delta >= -5
    THEN <<Action(name, "turn_off", "night", 0, 0)>>
    ELSE (IF operating_mode = "heat" /\ room.delta > 20 /\ room.is_on
          THEN <<Action(name, "turn_off", "overheating", 0, 0)>>
          ELSE <<>>)
         \o ComfortActions(name, room, r) \o StabilityActions(name, room, state.power)

\* the body of the per-room loop of decide_actions
RoomActions(name, state, is_emergency, is_night_mode, last, t, r) ==
    LET room == state.rooms[name] IN
    IF CooldownActive(last[name], t, r, is_emergency) THEN <<>>
    ELSE IF is_night_mode /\ room.is_on /\ room.delta >= -5
    THEN <<Action(name, "turn_off", "night", 0, 0)>>
    ELSE IF operating_mode = "heat" /\ room.delta > 20 /\ room.is_on
    THEN <<Action(name, "turn_off", "overheating", 0, 0)>>
    ELSE ComfortActions(name, room, r) \o StabilityActions(name, room, state.power)

RECURSIVE AllRoomActions(_, _, _, _, _, _, _)
AllRoomActions(i, state, is_emergency, is_night_mode, last, t, r) ==
    IF i > Len(RoomOrder) THEN <<>>
    ELSE RoomActions(RoomOrder[i], state, is_emergency, is_night_mode, last, t, r)
         \o AllRoomActions(i + 1, state, is_emergency, is_night_mode, last, t, r)

\* sorted(actions, key=abs(delta of the action's room), reverse=True):
\* stable, largest deviation first.
RECURSIVE InsertByDeviation(_, _, _)
InsertByDeviation(a, s, rooms) ==
    IF s = <<>> THEN <<a>>
    ELSE IF Abs(rooms[Head(s).room].delta) > Abs(rooms[a.room].delta)
    THEN <<Head(s)>> \o InsertByDeviation(a, Tail(s), rooms)
    ELSE <<a>> \o s

RECURSIVE SortByDeviation(_, _)
SortByDeviation(s, rooms) ==
    IF s = <<>> THEN <<>>
    ELSE InsertByDeviation(Head(s), SortByDeviation(Tail(s), rooms), rooms)

\* faulty variant: the list is cut to max_actions without sorting it first
decide_actions_trim_unsorted(state, is_emergency, is_night_mode, last, t, r) ==
    LET actions == AllRoomActions(1, state, is_emergency, is_night_mode, last, t, r)
        max_actions == r.max_actions_per_cycle
    IN  IF Len(actions) > max_actions
        THEN SubSeq(actions, 1, max_actions)
        ELSE actions

decide_actions(state, is_emergency, is_night_mode, last, t, r) ==
    LET actions == AllRoomActions(1, state, is_emergency, is_night_mode, last, t, r)
        max_actions == r.max_actions_per_cycle
    IN  IF Len(actions) > max_actions
        THEN SubSeq(SortByDeviation(actions, state.rooms), 1, max_actions)
        ELSE actions

\* ---- execute_action / turn_room_on / turn_room_off ----------------------
\* Every action type ends in one call_service; last_action_time[room] is
\* set only when that call did not raise.  ok is the set of indexes of the
\* actions whose call_service returned normally.
ExecuteAll(actions, ok, t) ==
    [room \in Rooms |->
        IF \E i \in ok : i \in DOMAIN actions /\ actions[i].room = room
        THEN t
        ELSE last_action_time[room]]

\* ---- control_cycle ------------------------------------------------------
IdleCycle ==
    [path |-> "idle", at |-> 0, state |-> <<>>, configured |-> CfgValue("absent", 0),
     emergency_threshold |-> CfgValue("absent", 0), warned |-> FALSE,
     is_emergency |-> FALSE, in_unstable |-> FALSE, last |-> <<>>,
     is_night_mode |-> FALSE, candidates |-> <<>>, actions |-> <<>>]

\* get_current_state() returned None: power or outdoor sensor unavailable
ControlCycleUnavailable ==
    /\ cyc.path = "idle"
    /\ cyc' = [IdleCycle EXCEPT !.path = "unavailable", !.at = now]
    /\ UNCHANGED <<now, last_action_time, rules, unstable_zones, outdoor_units, sensors>>

ControlCycle(power, rooms, is_night_mode, ok) ==
    LET state == get_current_state(power, rooms)
        configured == ConfiguredThreshold(rules)
        emergency_threshold == EmergencyThreshold(rules)
        is_emergency == IsEmergency(state, emergency_threshold)
        in_unstable == _is_in_unstable_zone(state.power)
        \* the list decide_actions has built when it reaches "Max actions"
        candidates == AllRoomActions(1, state, is_emergency, is_night_mode,
                                     last_action_time, now, rules)
        actions == decide_actions(state, is_emergency, is_night_mode,
                                  last_action_time, now, rules)
        locals == [path |-> "decided", at |-> now, state |-> state,
                   configured |-> configured,
                   emergency_threshold |-> emergency_threshold,
                   warned |-> ThresholdInvalid(configured),
                   is_emergency |-> is_emergency, in_unstable |-> in_unstable,
                   last |-> last_action_time, is_night_mode |-> is_night_mode,
                   candidates |-> candidates, actions |-> actions]
    IN  /\ cyc.path = "idle"
        /\ IF in_unstable /\ ~is_emergency
           THEN /\ ok = {}
                /\ cyc' = [locals EXCEPT !.path = "waiting", !.is_night_mode = FALSE,
                                          !.candidates = <<>>, !.actions = <<>>]
                /\ UNCHANGED last_action_time
           ELSE /\ ok \subseteq DOMAIN actions
                /\ cyc' = locals
                /\ last_action_time' = ExecuteAll(actions, ok, now)
        /\ UNCHANGED <<now, rules, unstable_zones, outdoor_units, sensors>>

\* control_cycle reading the sensors: get_current_state is None when
\* get_total_power is None or the outdoor temperature is not available
SensedControlCycle(rooms, is_night_mode, ok) ==
    LET power == get_total_power(outdoor_units, sensors)
    IN  IF power = NoPower \/ sensors["outdoor_temp"].kind \in Unavailable
        THEN ControlCycleUnavailable
        ELSE ControlCycle(power, rooms, is_night_mode, ok)

\* Home Assistant records a new state of a sensor
SensorChange(sensor, state) ==
    /\ sensors[sensor] # state
    /\ sensors' = [sensors EXCEPT ![sensor] = state]
    /\ UNCHANGED <<now, last_action_time, rules, unstable_zones, cyc, outdoor_units>>

\* the scheduler lets time pass between two cycles (run_every)
Tick(horizon) ==
    /\ now < horizon
    /\ now' = now + 1
    /\ cyc' = IdleCycle
    /\ UNCHANGED <<last_action_time, rules, unstable_zones, outdoor_units, sensors>>

\* ---- zone detection -------------------------------------------------------
\* ClimatIQController (appdaemon/apps/climatiq_controller.py), what lies
\* around the decisions of a cycle: stable_zones is the other half of the
\* zone detection's result, detection the position and the local `zones` of
\* a running detect_zones_from_history, episode the unstable zones a cycle
\* decided with and those log_episode wrote, daily the counters
\* _update_device_sensors keeps, today the calendar date.
VARIABLES stable_zones, detection, episode, daily, today

deviceVars == <<stable_zones, detection, episode, daily, today>>

StableZone(mean, std) == [power_mean |-> mean, power_std |-> std]

FallbackStableZones == <<StableZone(500, 50), StableZone(1800, 80)>>

\* what _gmm_clustering returns: {"stable": [...], "unstable": [...]}
Zones(stable, unstable) == [stable |-> stable, unstable |-> unstable]

\* results of the clustering on different histories; the last one has no
\* cluster of 10 samples, which detect_zones_from_history takes for failure
DetectedZones ==
    { Zones(<<StableZone(450, 40)>>, <<Zone(700, 900)>>),
      Zones(<<StableZone(450, 40), StableZone(1900, 60)>>,
            <<Zone(700, 900), Zone(1100, 1700)>>),
      Zones(<<>>, <<>>) }

\* no detect_zones_from_history is running
IdleDetection == [pc |-> "idle", zones |-> Zones(<<>>, <<>>)]

\* detect_zones_from_history up to its first assignment; load is what
\* _load_influx_history gave: "data", "short" (None or fewer than 1000
\* rows) or "raises".  `if zones:` is true for a dict with both keys even
\* when both lists are empty, so the fallback is used for short or failed
\* loads only
detect_zones_from_history(load, zones) ==
    /\ detection.pc = "idle"
    /\ IF load = "data"
       THEN /\ stable_zones' = zones.stable
            /\ detection' = [pc |-> "stable_assigned", zones |-> zones]
            /\ UNCHANGED unstable_zones
       ELSE /\ unstable_zones' = FallbackUnstableZones
            /\ detection' = [pc |-> "unstable_assigned",
                             zones |-> Zones(FallbackStableZones, FallbackUnstableZones)]
            /\ UNCHANGED stable_zones
    /\ UNCHANGED <<now, last_action_time, rules, cyc, outdoor_units, sensors>>
    /\ UNCHANGED <<episode, daily, today>>

\* the second assignment: unstable_zones after stable_zones (lines 285,
\* 286), stable_zones after unstable_zones in _use_fallback_zones
detect_zones_publish ==
    /\ detection.pc # "idle"
    /\ IF detection.pc = "stable_assigned"
       THEN unstable_zones' = detection.zones.unstable /\ UNCHANGED stable_zones
       ELSE stable_zones' = detection.zones.stable /\ UNCHANGED unstable_zones
    /\ detection' = IdleDetection
    /\ UNCHANGED <<now, last_action_time, rules, cyc, outdoor_units, sensors>>
    /\ UNCHANGED <<episode, daily, today>>

\* ---- log_episode ----------------------------------------------------------
\* a list of zones that was not read is <<>>, one that was read is <<zones>>
NoEpisode == [decided |-> <<>>, logged |-> <<>>]

\* episode["unstable_zones"] = self.unstable_zones
log_episode(ep) == [ep EXCEPT !.logged = <<unstable_zones>>]

\* ---- _update_device_sensors ------------------------------------------------
\* the attribute does not exist yet (hasattr is False)
NoDate == -1

\* the counters before the first _update_device_sensors; readings is a
\* history variable: date and power of every cycle that read a state
NoCounters ==
    [_daily_actions |-> 0, _daily_cycles |-> 0, _daily_reset_date |-> NoDate,
     _last_power_state |-> NoPower, readings |-> <<>>]

\* Watts above which the compressor counts as running
RunningPower == 700

\* the counters after _update_device_sensors(state, is_emergency, actions,
\* reward) on the calendar date `date`; the runtime minutes are left out
_update_device_sensors(c, date, power, actions) ==
    LET created == IF c._daily_reset_date = NoDate
                   THEN [c EXCEPT !._daily_actions = 0, !._daily_reset_date = date,
                                  !._last_power_state = NoPower, !._daily_cycles = 0]
                   ELSE c
        reset == IF date # created._daily_reset_date
                 THEN [created EXCEPT !._daily_actions = 0, !._daily_cycles = 0,
                                      !._daily_reset_date = date]
                 ELSE created
        counted == [reset EXCEPT !._daily_actions = @ + Len(actions)]
        rising == /\ counted._last_power_state # NoPower
                  /\ counted._last_power_state < RunningPower
                  /\ power > RunningPower
    IN  [counted EXCEPT !._daily_cycles = IF rising THEN @ + 1 ELSE @,
                        !._last_power_state = power]

InitDevice ==
    /\ stable_zones = FallbackStableZones
    /\ detection = IdleDetection
    /\ episode = NoEpisode
    /\ daily = NoCounters
    /\ today = 0

\* control_cycle from get_current_state to the last execute_action; the
\* episode and the counters are still to be written
control_cycle_decide(power, rooms, is_night_mode, ok) ==
    /\ episode.decided = <<>>
    /\ ControlCycle(power, rooms, is_night_mode, ok)
    /\ episode' = [NoEpisode EXCEPT !.decided = <<unstable_zones>>]
    /\ daily' = [daily EXCEPT !.readings = Append(@, [date |-> today, power |-> power])]
    /\ UNCHANGED <<stable_zones, detection, today>>

\* the rest of control_cycle: log_episode, and on the path that decided
\* also _update_device_sensors
control_cycle_log ==
    /\ episode.decided # <<>>
    /\ episode.logged = <<>>
    /\ episode' = log_episode(episode)
    /\ daily' = IF cyc.path = "decided"
                THEN _update_device_sensors(daily, today, cyc.state.power, cyc.actions)
                ELSE daily
    /\ UNCHANGED <<stable_zones, detection, today>>
    /\ UNCHANGED appVars

\* the scheduler lets time pass after a cycle has returned
NextCycle(horizon) ==
    /\ episode.decided # <<>> => episode.logged # <<>>
    /\ Tick(horizon)
    /\ episode' = NoEpisode
    /\ UNCHANGED <<stable_zones, detection, daily, today>>

\* midnight passes between two cycles
Midnight(last_date) ==
    /\ today < last_date
    /\ cyc.path = "idle"
    /\ today' = today + 1
    /\ UNCHANGED <<stable_zones, detection, episode, daily>>
    /\ UNCHANGED appVars

\* ========================================================================
\* Controller (climatiq/core/controller.py)
\* ========================================================================
VARIABLES clock, _last_action_time, _action_history, _action_callback, stats, ret,
          succeeded_at

\* succeeded_at is a history variable: the time of the last call of the
\* executor callback that returned success (NoTime when there was none).
coreVars == <<clock, _last_action_time, _action_history, _action_callback, stats, ret,
              succeeded_at>>

\* CyclingDetector (climatiq/analysis/cycling_detector.py) and Observer
\* (climatiq/core/observer.py): detector is the detector's configuration,
\* power_series the series handed to it (one sample per minute), det the
\* last call's locals and result; _power_history and observer are the
\* Observer's history and the values it reports (status and the cached
\* analysis results), summary the last dict get_summary returned.  The
\* tuples of _power_history are kept as two columns: _power_history holds
\* the values and _power_times their timestamps; upd is the last
\* update_power call (its arguments and whether it raised).
VARIABLES detector, power_series, det, _power_history, _power_times, upd,
          observer, summary

analysisVars ==
    <<detector, power_series, det, _power_history, _power_times, upd, observer, summary>>

\* Analyzer (climatiq/core/analyzer.py): df is the history the data store
\* returns, _last_result the Analyzer's cached result, ana the last call
\* and what it returned.  The supervising app (climatiq/appdaemon/
\* climatiq_app.py): predictor is its CyclingPredictor, app its
\* configuration, the callback that ran last and the position of every
\* invocation of _control_loop.
VARIABLES df, _last_result, ana, predictor, app

analyzerVars == <<df, _last_result, ana, predictor, app>>

vars == <<appVars, coreVars, analysisVars, analyzerVars, deviceVars>>

\* timedelta(minutes=10)
MIN_ACTION_INTERVAL == 10

\* tenths of a degree
MAX_TEMP_DEVIATION == 15

\* Watts
STABLE_STD_THRESHOLD == 50

HIGH_SPREAD_THRESHOLD == 300

\* UnitStatus.target_temp is None
NoTemp == -1

\* analysis without the key min_stable_power
NoMinStablePower == -1

SystemMode == {"observation", "learning", "active", "manual"}

\* the constructor's config (the unit tests' fixture)
config ==
    [target_temp |-> 210, night_temp |-> 190,
     unit_priorities |-> [wohnzimmer |-> 10, schlafzimmer |-> 20, arbeitszimmer |-> 50]]

\* priorities.get(name, 50)
Priority(name) ==
    IF name \in DOMAIN config.unit_priorities THEN config.unit_priorities[name] ELSE 50

ControlAction(type, unit, temperature, previous, strategy) ==
    [action_type |-> type, target_unit |-> unit, temperature |-> temperature,
     previous |-> previous, strategy |-> strategy]

NoAction(strategy) == ControlAction("no_action", "", NoTemp, NoTemp, strategy)

\* faulty variant: elapsed <= MIN_ACTION_INTERVAL blocks
should_act_off_by_one(mode, last, t) ==
    IF mode \in {"observation", "manual"} THEN FALSE
    ELSE IF last # NoTime /\ t - last <= MIN_ACTION_INTERVAL THEN FALSE
    ELSE TRUE

\* faulty variant: only OBSERVATION mode is refused
should_act_manual_acts(mode, last, t) ==
    IF mode \in {"observation"} THEN FALSE
    ELSE IF last # NoTime /\ t - last < MIN_ACTION_INTERVAL THEN FALSE
    ELSE TRUE

\* ---- should_act ---------------------------------------------------------
should_act(mode, last, t) ==
    IF mode \in {"observation", "manual"} THEN FALSE
    ELSE IF last # NoTime /\ t - last < MIN_ACTION_INTERVAL THEN FALSE
    ELSE TRUE

\* ---- decide_action ------------------------------------------------------
Unit(name, on, target) == [name |-> name, is_on |-> on, target_temp |-> target]

\* faulty variant: a cycling risk of exactly 0.6 already counts as unstable
is_unstable_inclusive(cycling_risk, power_std, power_spread) ==
    \/ cycling_risk >= 60
    \/ power_std > STABLE_STD_THRESHOLD
    \/ power_spread > HIGH_SPREAD_THRESHOLD

is_unstable(cycling_risk, power_std, power_spread) ==
    \/ cycling_risk > 60
    \/ power_std > STABLE_STD_THRESHOLD
    \/ power_spread > HIGH_SPREAD_THRESHOLD

\* analysis.get("min_stable_power", 450.0)
min_stable_power(analysis) ==
    IF analysis.min_stable_power = NoMinStablePower THEN 450
    ELSE analysis.min_stable_power

\* [(n, u) for n, u in status.units.items() if not u.is_on]
inactive_units(units) == SelectSeq(units, LAMBDA u : ~u.is_on)

\* faulty variant: the inactive units are not sorted, the first listed is taken
FirstByPriority_first_listed(us) == us[1].name

\* inactive_units.sort(key=priority)[0]: lowest priority value, the first
\* in dict order among equals (the sort is stable)
FirstByPriority(us) ==
    LET best == CHOOSE i \in DOMAIN us :
                    /\ \A j \in DOMAIN us : Priority(us[i].name) <= Priority(us[j].name)
                    /\ \A j \in 1..(i - 1) : Priority(us[j].name) # Priority(us[i].name)
    IN  us[best].name

_strategy_night_mode(units) ==
    IF inactive_units(units) = <<>> THEN NoAction("")
    ELSE ControlAction("enable_unit", FirstByPriority(inactive_units(units)),
                       config.night_temp, NoTemp, "night_mode")

_strategy_stability_targeting(units) ==
    IF inactive_units(units) # <<>>
    THEN ControlAction("enable_unit", FirstByPriority(inactive_units(units)),
                       config.target_temp - 5, NoTemp, "stability_targeting")
    ELSE NoAction("")

_strategy_gradual_nudge(units) ==
    LET active_units == SelectSeq(units, LAMBDA u : u.is_on /\ u.target_temp # NoTemp)
    IN  IF active_units = <<>> THEN NoAction("")
        ELSE LET current_temp == active_units[1].target_temp
                 up == current_temp + 3
                 down == current_temp - 3
             IN  IF up > config.target_temp + MAX_TEMP_DEVIATION
                 THEN IF down < config.target_temp - MAX_TEMP_DEVIATION
                      THEN NoAction("")
                      ELSE ControlAction("adjust_temp", active_units[1].name, down,
                                         current_temp, "gradual_nudge")
                 ELSE ControlAction("adjust_temp", active_units[1].name, up,
                                    current_temp, "gradual_nudge")

\* faulty variant: the gradual nudge is tried before stability targeting
decide_action_nudge_first(status, analysis, night) ==
    LET unstable == is_unstable(status.cycling_risk, analysis.power_std,
                                analysis.power_spread)
        current_power == status.power_consumption
        min_stable == min_stable_power(analysis)
        night_action == _strategy_night_mode(status.units)
        stability_action == _strategy_stability_targeting(status.units)
        nudge_action == _strategy_gradual_nudge(status.units)
    IN  IF ~unstable /\ current_power >= min_stable
        THEN NoAction("stable")
        ELSE IF night /\ unstable /\ night_action.action_type # "no_action"
        THEN night_action
        ELSE IF unstable /\ nudge_action.action_type # "no_action"
        THEN nudge_action
        ELSE IF (current_power < min_stable \/ unstable)
                /\ stability_action.action_type # "no_action"
        THEN stability_action
        ELSE NoAction("none_found")

decide_action(status, analysis, night) ==
    LET unstable == is_unstable(status.cycling_risk, analysis.power_std,
                                analysis.power_spread)
        current_power == status.power_consumption
        min_stable == min_stable_power(analysis)
        night_action == _strategy_night_mode(status.units)
        stability_action == _strategy_stability_targeting(status.units)
        nudge_action == _strategy_gradual_nudge(status.units)
    IN  IF ~unstable /\ current_power >= min_stable
        THEN NoAction("stable")
        ELSE IF night /\ unstable /\ night_action.action_type # "no_action"
        THEN night_action
        ELSE IF (current_power < min_stable \/ unstable)
                /\ stability_action.action_type # "no_action"
        THEN stability_action
        ELSE IF unstable /\ nudge_action.action_type # "no_action"
        THEN nudge_action
        ELSE NoAction("none_found")

\* ControlAction.reason of a NO_ACTION result: the text given at the return
\* statement of decide_action, "" (the dataclass default) otherwise
reason(action) ==
    IF action.strategy = "stable" THEN "System stabil und effizient."
    ELSE IF action.strategy = "none_found"
    THEN "Keine passende Intervention gefunden."
    ELSE ""

\* the counter decide_action increments before returning the action
DecideStats(st, action) ==
    IF action.strategy = "night_mode"
    THEN [st EXCEPT !.night_mode_actions = @ + 1]
    ELSE IF action.strategy = "stability_targeting"
    THEN [st EXCEPT !.stability_actions = @ + 1]
    ELSE IF action.strategy = "gradual_nudge"
    THEN [st EXCEPT !.gradual_nudges = @ + 1]
    ELSE st

\* ---- the record of the last call and its result -------------------------
NoStatus == [cycling_risk |-> 0, power_consumption |-> 0, units |-> <<>>]

NoAnalysis == [power_std |-> 0, power_spread |-> 0, min_stable_power |-> NoMinStablePower]

NoCall ==
    [op |-> "none", mode |-> "observation", answer |-> FALSE,
     status |-> NoStatus, analysis |-> NoAnalysis, night |-> FALSE,
     action |-> NoAction(""), callback |-> "not_called", success |-> FALSE]

\* ---- operations ---------------------------------------------------------
SetActionCallback ==
    /\ _action_callback = "unset"
    /\ _action_callback' = "set"
    /\ ret' = NoCall
    /\ UNCHANGED <<clock, _last_action_time, _action_history, stats, succeeded_at>>

ShouldAct(mode) ==
    /\ ret' = [NoCall EXCEPT !.op = "should_act", !.mode = mode,
                             !.answer = should_act(mode, _last_action_time, clock)]
    /\ UNCHANGED <<clock, _last_action_time, _action_history, _action_callback, stats,
                   succeeded_at>>

DecideAction(status, analysis, night) ==
    LET action == decide_action(status, analysis, night) IN
    /\ stats' = DecideStats(stats, action)
    /\ ret' = [NoCall EXCEPT !.op = "decide_action", !.status = status,
                             !.analysis = analysis, !.night = night,
                             !.action = action]
    /\ UNCHANGED <<clock, _last_action_time, _action_history, _action_callback,
                   succeeded_at>>

\* faulty variant: the last-action time is recorded as soon as the callback was
\* called, whatever it returned
ExecuteAction_records_failure(action, outcome) ==
    LET called == action.action_type # "no_action" /\ _action_callback = "set"
        success == \/ action.action_type = "no_action"
                   \/ (called /\ outcome = "true")
    IN  /\ _last_action_time' = IF called THEN clock ELSE _last_action_time
        /\ IF called /\ outcome = "true"
           THEN /\ _action_history' = Append(_action_history, action)
                /\ stats' = [stats EXCEPT !.actions_taken = @ + 1]
                /\ succeeded_at' = clock
           ELSE UNCHANGED <<_action_history, stats, succeeded_at>>
        /\ ret' = [NoCall EXCEPT !.op = "execute_action", !.action = action,
                                 !.callback = IF called THEN outcome ELSE "not_called",
                                 !.success = success]
        /\ UNCHANGED <<clock, _action_callback>>

\* outcome is what the executor callback does when it is called:
\* "true", "false" or "raises"
ExecuteAction(action, outcome) ==
    LET called == action.action_type # "no_action" /\ _action_callback = "set"
        success == \/ action.action_type = "no_action"
                   \/ (called /\ outcome = "true")
    IN  /\ IF called /\ outcome = "true"
           THEN /\ _last_action_time' = clock
                /\ _action_history' = Append(_action_history, action)
                /\ stats' = [stats EXCEPT !.actions_taken = @ + 1]
                /\ succeeded_at' = clock
           ELSE UNCHANGED <<_last_action_time, _action_history, stats, succeeded_at>>
        /\ ret' = [NoCall EXCEPT !.op = "execute_action", !.action = action,
                                 !.callback = IF called THEN outcome ELSE "not_called",
                                 !.success = success]
        /\ UNCHANGED <<clock, _action_callback>>

ClockTick(horizon) ==
    /\ clock < horizon
    /\ clock' = clock + 1
    /\ ret' = NoCall
    /\ UNCHANGED <<_last_action_time, _action_history, _action_callback, stats,
                   succeeded_at>>

InitCore ==
    /\ clock = 0
    /\ _last_action_time = NoTime
    /\ _action_history = <<>>
    /\ _action_callback = "unset"
    /\ stats = [actions_taken |-> 0, cycles_prevented |-> 0, stability_actions |-> 0,
                night_mode_actions |-> 0, gradual_nudges |-> 0]
    /\ ret = NoCall
    /\ succeeded_at = NoTime

\* ========================================================================
\* CyclingDetector (climatiq/analysis/cycling_detector.py)
\* ========================================================================
\* Power is in whole Watts, a timestamp is the index of its sample (one
\* sample per minute), scores are thousandths, fluctuation_threshold_pct is
\* in tenths of a percent.
CyclingDetector(on, off, watts, pct, window) ==
    [power_on_threshold |-> on, power_off_threshold |-> off,
     fluctuation_threshold_watts |-> watts, fluctuation_threshold_pct |-> pct,
     window_minutes |-> window, instability_threshold |-> 500]

\* Observer.__init__: the detector the Observer builds from its defaults
ObserverDetector == CyclingDetector(300, 150, 200, 4, 10)

RECURSIVE MaxSeq(_)
MaxSeq(s) ==
    IF Len(s) = 1 THEN s[1]
    ELSE LET mid == Len(s) \div 2
         IN  Max2(MaxSeq(SubSeq(s, 1, mid)), MaxSeq(SubSeq(s, mid + 1, Len(s))))

RECURSIVE MinSeq(_)
MinSeq(s) ==
    IF Len(s) = 1 THEN s[1]
    ELSE LET mid == Len(s) \div 2
         IN  Min2(MinSeq(SubSeq(s, 1, mid)), MinSeq(SubSeq(s, mid + 1, Len(s))))

\* ---- detect_cycles ------------------------------------------------------
\* faulty variant: one threshold, the compressor is off below power_on_threshold
HysteresisStep_single_threshold(d, current_state, power) ==
    IF current_state
    THEN ~(power < d.power_on_threshold)
    ELSE power > d.power_on_threshold

\* one iteration of the loop over the samples
HysteresisStep(d, current_state, power) ==
    IF current_state
    THEN ~(power < d.power_off_threshold)
    ELSE power > d.power_on_threshold

\* current_state after the iterations lo..hi that began in current_state
RECURSIVE StateAfter(_, _, _, _, _)
StateAfter(d, s, current_state, lo, hi) ==
    IF lo > hi THEN current_state
    ELSE IF lo = hi THEN HysteresisStep(d, current_state, s[lo])
    ELSE LET mid == (lo + hi) \div 2
         IN  StateAfter(d, s, StateAfter(d, s, current_state, lo, mid), mid + 1, hi)

\* current_state after sample i; before the loop it is iloc[0] > on
StateAt(d, s, i) == StateAfter(d, s, s[1] > d.power_on_threshold, 1, i)

\* states_series
States(d, s) == [i \in DOMAIN s |-> StateAt(d, s, i)]

\* state_changes = states.astype(int).diff().fillna(0)
StateChange(states, i) ==
    IF i = 1 THEN 0
    ELSE (IF states[i] THEN 1 ELSE 0) - (IF states[i - 1] THEN 1 ELSE 0)

CycleEvent(start, end, s) ==
    [start_time |-> start, end_time |-> end, duration_minutes |-> end - start,
     peak_power |-> MaxSeq(SubSeq(s, start, end)),
     avg_power |-> SumSeq(SubSeq(s, start, end)) \div (end - start + 1)]

\* the loop over on_times, for the positions lo..hi of the series
RECURSIVE CyclesBetween(_, _, _, _)
CyclesBetween(lo, hi, s, states) ==
    IF lo > hi THEN <<>>
    ELSE IF lo = hi
    THEN LET future_offs == {j \in DOMAIN s : StateChange(states, j) = -1 /\ j > lo}
         IN  IF StateChange(states, lo) = 1 /\ future_offs # {}
             THEN <<CycleEvent(lo, CHOOSE j \in future_offs :
                                       \A k \in future_offs : j <= k, s)>>
             ELSE <<>>
    ELSE LET mid == (lo + hi) \div 2
         IN  CyclesBetween(lo, mid, s, states) \o CyclesBetween(mid + 1, hi, s, states)

detect_cycles(d, s) ==
    IF Len(s) < 2 THEN <<>> ELSE CyclesBetween(1, Len(s), s, States(d, s))

\* ---- calculate_instability_score -----------------------------------------
\* floor of the square root, by bisection between lo and hi
RECURSIVE SqrtBetween(_, _, _)
SqrtBetween(x, lo, hi) ==
    IF lo = hi THEN lo
    ELSE LET mid == (lo + hi + 1) \div 2
         IN  IF mid * mid <= x THEN SqrtBetween(x, mid, hi)
             ELSE SqrtBetween(x, lo, mid - 1)

Sqrt(x) == SqrtBetween(x, 0, 46340)

SumSq(s) == SumSeq([i \in DOMAIN s |-> s[i] * s[i]])

\* rolling("<w>min") at sample i: the samples of the last w minutes
Rolling(s, i, w) == SubSeq(s, Max2(1, i - w + 1), i)

\* k * sum(x^2) - sum(x)^2 = k * (k - 1) * variance (ddof = 1)
SpreadSq(win) == Len(win) * SumSq(win) - SumSeq(win) * SumSeq(win)

\* (rolling_std / rolling_mean).fillna(0): the std of one sample is NaN
StdScore(win) ==
    IF Len(win) < 2 \/ SumSeq(win) = 0 THEN 0
    ELSE (1000 * Sqrt((Len(win) * SpreadSq(win)) \div (Len(win) - 1))) \div SumSeq(win)

\* ((rolling_max - rolling_min) / rolling_mean).fillna(0)
AmpScore(win) ==
    IF SumSeq(win) = 0 THEN 0
    ELSE (1000 * Len(win) * (MaxSeq(win) - MinSeq(win))) \div SumSeq(win)

Sign(x) == IF x > 0 THEN 1 ELSE IF x < 0 THEN -1 ELSE 0

\* faulty variant: the first difference is taken against zero
Diff_without_fillna(s, i) == IF i = 1 THEN s[1] ELSE s[i] - s[i - 1]

\* power_series.diff().fillna(0)
Diff(s, i) == IF i = 1 THEN 0 ELSE s[i] - s[i - 1]

\* (np.sign(diffs).diff().fillna(0) != 0).astype(int)
DirectionChanges(s) ==
    [i \in DOMAIN s |->
        IF i > 1 /\ Sign(Diff(s, i)) # Sign(Diff(s, i - 1)) THEN 1 ELSE 0]

\* direction_changes.rolling(window).mean()
FreqScore(win) == (1000 * SumSeq(win)) \div Len(win)

Clip(x, lo, hi) == IF x < lo THEN lo ELSE IF x > hi THEN hi ELSE x

\* (std_score * 0.4) + (amp_score * 0.4) + (freq_score * 2.0), clipped
Combined(std, amp, freq) == Clip((4 * std + 4 * amp + 20 * freq) \div 10, 0, 1000)

std_score(d, s) ==
    [i \in DOMAIN s |-> StdScore(Rolling(s, i, d.window_minutes))]

amp_score(d, s) ==
    [i \in DOMAIN s |-> AmpScore(Rolling(s, i, d.window_minutes))]

freq_score(d, s) ==
    [i \in DOMAIN s |-> FreqScore(Rolling(DirectionChanges(s), i, d.window_minutes))]

calculate_instability_score(d, s) ==
    [i \in DOMAIN s |->
        Combined(std_score(d, s)[i], amp_score(d, s)[i], freq_score(d, s)[i])]

\* ---- detect_fluctuations -------------------------------------------------
Indexes(s) == [i \in DOMAIN s |-> i]

\* change = is_unstable.astype(int).diff().fillna(0)
Change(unstable_at, i) ==
    IF i = 1 THEN 0
    ELSE (IF unstable_at[i] THEN 1 ELSE 0) - (IF unstable_at[i - 1] THEN 1 ELSE 0)

FluctuationStarts(unstable_at) ==
    (IF unstable_at[1] THEN <<1>> ELSE <<>>)
    \o SelectSeq(Indexes(unstable_at), LAMBDA i : Change(unstable_at, i) = 1)

\* faulty variant: a period that is still unstable at the last sample is not closed
FluctuationEnds_without_last(unstable_at) ==
    SelectSeq(Indexes(unstable_at), LAMBDA i : Change(unstable_at, i) = -1)

FluctuationEnds(unstable_at) ==
    SelectSeq(Indexes(unstable_at), LAMBDA i : Change(unstable_at, i) = -1)
    \o (IF unstable_at[Len(unstable_at)] THEN <<Len(unstable_at)>> ELSE <<>>)

FluctuationEvent(start, end, s, scores) ==
    LET period_data == SubSeq(s, start, end)
        period_scores == SubSeq(scores, start, end)
        duration == end - start
    IN  [start_time |-> start, end_time |-> end, duration_minutes |-> duration,
         instability_score |-> SumSeq(period_scores) \div Len(period_scores),
         amplitude_watts |-> MaxSeq(period_data) - MinSeq(period_data),
         frequency_hz |-> (1000 * SumSeq(DirectionChanges(period_data)))
                              \div (IF duration > 0 THEN duration ELSE 1),
         avg_power |-> SumSeq(period_data) \div Len(period_data)]

\* the loop over zip(starts, ends), for the pairs lo..hi
RECURSIVE EventsBetween(_, _, _, _, _, _)
EventsBetween(lo, hi, starts, ends, s, scores) ==
    IF lo > hi THEN <<>>
    ELSE IF lo = hi
    THEN (IF ends[lo] - starts[lo] + 1 < 2 THEN <<>>
          ELSE <<FluctuationEvent(starts[lo], ends[lo], s, scores)>>)
    ELSE LET mid == (lo + hi) \div 2
         IN  EventsBetween(lo, mid, starts, ends, s, scores)
                 \o EventsBetween(mid + 1, hi, starts, ends, s, scores)

detect_fluctuations(d, s) ==
    IF s = <<>> THEN <<>>
    ELSE LET scores == calculate_instability_score(d, s)
             unstable_at == [i \in DOMAIN s |-> scores[i] > d.instability_threshold]
             starts == FluctuationStarts(unstable_at)
             ends == FluctuationEnds(unstable_at)
         IN  EventsBetween(1, Min2(Len(starts), Len(ends)), starts, ends, s, scores)

\* ---- detect_power_jumps --------------------------------------------------
\* the jump at sample i (i >= 2): absolute or relative threshold reached
IsJump(d, s, i) ==
    LET delta == s[i] - s[i - 1]
        prev_val == s[i - 1]
    IN  \/ Abs(delta) >= d.fluctuation_threshold_watts
        \/ (prev_val > 0 /\ Abs(delta) * 1000 >= d.fluctuation_threshold_pct * prev_val)

\* the timestamps of the jumps (the deltas follow from the series)
detect_power_jumps(d, s) ==
    IF Len(s) < 2 THEN <<>>
    ELSE SelectSeq(Indexes(s), LAMBDA i : i > 1 /\ IsJump(d, s, i))

\* ---- the record of the last detector call -------------------------------
NoDetection ==
    [op |-> "none", states |-> <<>>, cycles |-> <<>>, std_score |-> <<>>,
     amp_score |-> <<>>, freq_score |-> <<>>, scores |-> <<>>, events |-> <<>>]

\* the caller extends the series by the next minute's sample
Sample(power) ==
    /\ power_series' = Append(power_series, power)
    /\ det' = NoDetection
    /\ UNCHANGED <<detector, _power_history, _power_times, upd, observer, summary>>

DetectCycles ==
    /\ det' = [NoDetection EXCEPT !.op = "detect_cycles",
                                  !.states = IF Len(power_series) < 2 THEN <<>>
                                             ELSE States(detector, power_series),
                                  !.cycles = detect_cycles(detector, power_series)]
    /\ UNCHANGED <<detector, power_series, _power_history, _power_times, upd, observer, summary>>

CalculateInstabilityScore ==
    /\ det' = [NoDetection EXCEPT
                 !.op = "calculate_instability_score",
                 !.std_score = std_score(detector, power_series),
                 !.amp_score = amp_score(detector, power_series),
                 !.freq_score = freq_score(detector, power_series),
                 !.scores = calculate_instability_score(detector, power_series)]
    /\ UNCHANGED <<detector, power_series, _power_history, _power_times, upd, observer, summary>>

\* the caller asks for the fluctuations and for the cycles of one series
DetectFluctuations ==
    /\ det' = [NoDetection EXCEPT
                 !.op = "detect_fluctuations",
                 !.scores = calculate_instability_score(detector, power_series),
                 !.events = detect_fluctuations(detector, power_series),
                 !.cycles = detect_cycles(detector, power_series)]
    /\ UNCHANGED <<detector, power_series, _power_history, _power_times, upd, observer, summary>>

\* ========================================================================
\* Observer (climatiq/core/observer.py)
\* ========================================================================
\* update_power is called once a minute; cycling_risk is in hundredths,
\* _instability_score in thousandths, a standard deviation in tenths of W.
\* A timestamp is a whole minute; a recent jump is the position of its
\* sample in the window.
\* OptimizerStatus() and the cached analysis results after __init__
NoReport ==
    [mode |-> "observation", power_consumption |-> 0, last_update |-> 0,
     is_cycling |-> FALSE, cycling_risk |-> 0, units |-> <<>>,
     _instability_score |-> 0, _recent_jumps |-> <<>>]

\* Keep 2 hours of 1-min data
_max_history == 120

\* series.rolling(window=window, min_periods=1): the last window rows
RollingRows(s, i, window) == SubSeq(s, Max2(1, i - window + 1), i)

\* the standard deviation (ddof = 1) of at least two rows, in tenths of W
RowsStd(win) == Sqrt((100 * SpreadSq(win)) \div (Len(win) * (Len(win) - 1)))

\* float(rolling_std.mean()): the first row's std is NaN and is skipped
avg_rolling_std(s) ==
    LET window == Min2(10, Len(s))
    IN  SumSeq([i \in 1..(Len(s) - 1) |-> RowsStd(RollingRows(s, i + 1, window))])
            \div (Len(s) - 1)

_compute_instability_score(s, recent_jumps) ==
    IF Len(s) < 3 THEN 0
    ELSE IF SumSeq(s) < Len(s) THEN 0
    ELSE LET rolling_std_ratio ==
                 Min2(1000, (100 * avg_rolling_std(s) * Len(s)) \div SumSeq(s))
             jump_freq == Min2(1000, (1000 * Len(recent_jumps)) \div 6)
             amplitude == MaxSeq(s) - MinSeq(s)
             amplitude_ratio == Min2(1000, (1000 * amplitude * Len(s)) \div SumSeq(s))
         IN  Clip((400 * rolling_std_ratio + 350 * jump_freq + 250 * amplitude_ratio)
                      \div 1000, 0, 1000)

\* faulty variant: the history is analysed whatever its length
_analyze_cycling_any_length(d, history, report) ==
    LET series == history
        cycles == detect_cycles(d, series)
        has_short_cycles == \E c \in DOMAIN cycles : cycles[c].duration_minutes < 10
        has_fluctuations == detect_fluctuations(d, series) # <<>>
        all_jumps == detect_power_jumps(d, series)
        cutoff == Len(series) - 10
        recent_jumps == SelectSeq(all_jumps, LAMBDA ts : ts >= cutoff)
        score == _compute_instability_score(series, recent_jumps)
    IN  [report EXCEPT !._recent_jumps = recent_jumps,
                       !._instability_score = score,
                       !.is_cycling = has_short_cycles \/ has_fluctuations \/ score > 500,
                       !.cycling_risk = (Clip(score, 0, 1000) + 5) \div 10]

\* faulty variant: fluctuation events do not count
_analyze_cycling_without_fluctuations(d, history, report) ==
    IF Len(history) < 10 THEN report
    ELSE LET series == history
             cycles == detect_cycles(d, series)
             has_short_cycles ==
                 \E c \in DOMAIN cycles : cycles[c].duration_minutes < 10
             all_jumps == detect_power_jumps(d, series)
             cutoff == Len(series) - 10
             recent_jumps == SelectSeq(all_jumps, LAMBDA ts : ts >= cutoff)
             score == _compute_instability_score(series, recent_jumps)
         IN  [report EXCEPT !._recent_jumps = recent_jumps,
                            !._instability_score = score,
                            !.is_cycling = has_short_cycles \/ score > 500,
                            !.cycling_risk = (Clip(score, 0, 1000) + 5) \div 10]

\* what _analyze_cycling leaves in status and in the cached results
_analyze_cycling(d, history, report) ==
    IF Len(history) < 10 THEN report
    ELSE LET series == history
             cycles == detect_cycles(d, series)
             has_short_cycles ==
                 \E c \in DOMAIN cycles : cycles[c].duration_minutes < 10
             has_fluctuations == detect_fluctuations(d, series) # <<>>
             all_jumps == detect_power_jumps(d, series)
             cutoff == Len(series) - 10
             recent_jumps == SelectSeq(all_jumps, LAMBDA ts : ts >= cutoff)
             score == _compute_instability_score(series, recent_jumps)
         IN  [report EXCEPT !._recent_jumps = recent_jumps,
                            !._instability_score = score,
                            !.is_cycling = has_short_cycles \/ has_fluctuations
                                               \/ score > 500,
                            !.cycling_risk = (Clip(score, 0, 1000) + 5) \div 10]

\* no update_power call yet
NoUpdate == [value |-> 0, timestamp |-> 0, raised |-> FALSE]

\* the DatetimeIndex built from the window's timestamps never goes back
Monotonic(times) == \A i \in 2..Len(times) : times[i - 1] <= times[i]

\* _analyze_cycling raises: power_series.rolling("10min") of
\* calculate_instability_score refuses an index that is not monotonic
\* (ValueError); a window of fewer than 10 samples is not analysed
AnalysisRaises(times) == Len(times) >= 10 /\ ~Monotonic(times)

\* datetime.now(UTC): one minute after the newest timestamp seen
Now == 1 + IF _power_times = <<>> THEN observer.last_update
           ELSE Max2(observer.last_update, MaxSeq(_power_times))

\* faulty variant: the newest sample is dropped when the history is full
update_power_drops_newest(value, timestamp) ==
    LET ts == timestamp
        appended == Append(_power_history, value)
        stamped == Append(_power_times, ts)
        history == IF Len(appended) > _max_history THEN _power_history ELSE appended
        times == IF Len(stamped) > _max_history THEN _power_times ELSE stamped
        status == [observer EXCEPT !.power_consumption = value, !.last_update = ts]
    IN  /\ _power_history' = history
        /\ _power_times' = times
        /\ upd' = [value |-> value, timestamp |-> ts, raised |-> AnalysisRaises(times)]
        /\ observer' = IF AnalysisRaises(times) THEN status
                       ELSE _analyze_cycling(detector, history, status)
        /\ UNCHANGED <<detector, power_series, det, summary>>

\* update_power(value, timestamp): status and window are written, then the
\* window is analysed; an exception of the analysis leaves the method
\* with both already written
update_power(value, timestamp) ==
    LET ts == timestamp
        appended == Append(_power_history, value)
        stamped == Append(_power_times, ts)
        history == IF Len(appended) > _max_history THEN Tail(appended) ELSE appended
        times == IF Len(stamped) > _max_history THEN Tail(stamped) ELSE stamped
        status == [observer EXCEPT !.power_consumption = value, !.last_update = ts]
    IN  /\ _power_history' = history
        /\ _power_times' = times
        /\ upd' = [value |-> value, timestamp |-> ts, raised |-> AnalysisRaises(times)]
        /\ observer' = IF AnalysisRaises(times) THEN status
                       ELSE _analyze_cycling(detector, history, status)
        /\ UNCHANGED <<detector, power_series, det, summary>>

\* ClimatIQ._on_power_change: float(new) raises for a text that is no
\* number and for None, and the reading is dropped
_on_power_change(new) ==
    IF new.kind = "num" THEN update_power(new.val, Now)
    ELSE UNCHANGED <<detector, power_series, det, _power_history, _power_times, upd, observer, summary>>

\* ---- update_unit ----------------------------------------------------------
\* UnitStatus(name=name, entity_id=entity_id): None is NoTemp or "none"
UnitStatus(name, entity_id) ==
    [name |-> name, entity_id |-> entity_id, is_on |-> FALSE,
     current_temp |-> NoTemp, target_temp |-> NoTemp,
     fan_mode |-> "none", hvac_mode |-> "none"]

\* data.get(key, default) of a partial update
Get(data, key, default) == IF key \in DOMAIN data THEN data[key] ELSE default

\* status.units[name] after update_unit(name, data)
UpdatedUnit(units, name, data) ==
    LET unit == IF name \in DOMAIN units THEN units[name]
                ELSE UnitStatus(name, Get(data, "entity_id", ""))
    IN  [unit EXCEPT !.is_on = Get(data, "is_on", unit.is_on),
                     !.current_temp = Get(data, "current_temp", unit.current_temp),
                     !.target_temp = Get(data, "target_temp", unit.target_temp),
                     !.fan_mode = Get(data, "fan_mode", unit.fan_mode),
                     !.hvac_mode = Get(data, "hvac_mode", unit.hvac_mode)]

\* status.units after update_unit(name, data)
UpdatedUnits(units, name, data) ==
    [n \in DOMAIN units \cup {name} |->
        IF n = name THEN UpdatedUnit(units, name, data) ELSE units[n]]

\* faulty variant: the unit is put into a fresh OptimizerStatus
update_unit_fresh_status(name, data) ==
    /\ observer' = [observer EXCEPT !.units = UpdatedUnits(observer.units, name, data),
                                    !.mode = "observation"]
    /\ UNCHANGED <<detector, power_series, det, _power_history, _power_times, upd, summary>>

update_unit(name, data) ==
    /\ observer' = [observer EXCEPT !.units = UpdatedUnits(observer.units, name, data)]
    /\ UNCHANGED <<detector, power_series, det, _power_history, _power_times, upd, summary>>

\* ---- get_summary ----------------------------------------------------------
get_summary ==
    [mode |-> observer.mode, power |-> observer.power_consumption,
     is_cycling |-> observer.is_cycling, cycling_risk |-> observer.cycling_risk,
     instability_score |-> observer._instability_score,
     recent_jumps |-> observer._recent_jumps,
     active_units |-> Cardinality({n \in DOMAIN observer.units : observer.units[n].is_on}),
     last_update |-> observer.last_update]

\* get_summary() has not been called
NoSummary == [mode |-> "none"]

GetSummary ==
    /\ summary' = get_summary
    /\ UNCHANGED <<detector, power_series, det, _power_history, _power_times, upd, observer>>

InitAnalysis(detectors) ==
    /\ detector \in detectors
    /\ power_series = <<>>
    /\ det = NoDetection
    /\ _power_history = <<>>
    /\ _power_times = <<>>
    /\ upd = NoUpdate
    /\ observer = NoReport
    /\ summary = NoSummary

\* ========================================================================
\* Analyzer (climatiq/core/analyzer.py)
\* ========================================================================
\* A history is a column of power values (whole Watts, no missing values)
\* with a DatetimeIndex that starts at midnight and advances by freq
\* minutes per row.  Bin midpoints are in 1/2000 W, stability scores of the
\* power bins in 1/100000, thresholds of the state detection in 1/200 W.
Frame(values, freq) == [power |-> values, freq |-> freq]

\* pd.DataFrame(): no rows
NoFrame == Frame(<<>>, 1)

\* Need at least 24h of data
MIN_HOURS_FOR_ANALYSIS == 24

\* Minimum data points
MIN_DATAPOINTS == 1000

\* df.index[-1] - df.index[0], in minutes
TimeSpan(frame) == (Len(frame.power) - 1) * frame.freq

\* faulty variant: the time span is not looked at
check_data_sufficiency_points_only(frame) ==
    IF Len(frame.power) = 0
    THEN [sufficient |-> FALSE, message |-> "Keine Daten vorhanden."]
    ELSE IF Len(frame.power) < MIN_DATAPOINTS
    THEN [sufficient |-> FALSE, message |-> "Nur n Datenpunkte."]
    ELSE [sufficient |-> TRUE, message |-> "Ausreichend Daten"]

\* the tuple (is_sufficient, message); a message is its fixed leading text
check_data_sufficiency(frame) ==
    IF Len(frame.power) = 0
    THEN [sufficient |-> FALSE, message |-> "Keine Daten vorhanden."]
    ELSE IF Len(frame.power) < MIN_DATAPOINTS
    THEN [sufficient |-> FALSE, message |-> "Nur n Datenpunkte."]
    ELSE IF TimeSpan(frame) < 60 * MIN_HOURS_FOR_ANALYSIS
    THEN [sufficient |-> FALSE, message |-> "Nur h Daten."]
    ELSE [sufficient |-> TRUE, message |-> "Ausreichend Daten"]

\* ---- _add_cycling_detection ------------------------------------------------
Levels(s) == {s[i] : i \in DOMAIN s}

\* sorted(power)[k], k counting from 0
OrderStat(s, k) ==
    CHOOSE v \in Levels(s) :
        /\ Cardinality({i \in DOMAIN s : s[i] < v}) <= k
        /\ k < Cardinality({i \in DOMAIN s : s[i] <= v})

\* power.quantile(q / 10) with linear interpolation, in tenths of a Watt
Quantile(s, q) ==
    LET h == (Len(s) - 1) * q
        lo == OrderStat(s, h \div 10)
    IN  IF h % 10 = 0 THEN 10 * lo
        ELSE 10 * lo + (h % 10) * (OrderStat(s, h \div 10 + 1) - lo)

\* threshold_off and threshold_on, in 1/200 W
DynamicThresholds(s) ==
    LET p10 == Quantile(s, 1)
        p90 == Quantile(s, 9)
    IN  [threshold_off |-> 20 * p10 + 3 * (p90 - p10),
         threshold_on |-> 20 * p10 + 5 * (p90 - p10)]

\* one pass of the hysteresis loop
NextCompressorState(th, state, power_val) ==
    IF state
    THEN ~(200 * power_val < th.threshold_off)
    ELSE 200 * power_val > th.threshold_on

\* the column compressor_on for rows lo..hi, entered in state `state`
RECURSIVE CompressorStates(_, _, _, _, _)
CompressorStates(s, th, state, lo, hi) ==
    IF lo > hi THEN <<>>
    ELSE IF lo = hi THEN <<NextCompressorState(th, state, s[lo])>>
    ELSE LET mid == (lo + hi) \div 2
             left == CompressorStates(s, th, state, lo, mid)
         IN  left \o CompressorStates(s, th, left[Len(left)], mid + 1, hi)

\* the columns compressor_on and state_change
_add_cycling_detection(frame) ==
    LET s == frame.power
        on == CompressorStates(s, DynamicThresholds(s), FALSE, 1, Len(s))
    IN  [compressor_on |-> on,
         state_change |-> [i \in DOMAIN s |->
                              IF i > 1 /\ on[i] # on[i - 1] THEN 1 ELSE 0]]

\* ---- _discover_stable_threshold ---------------------------------------------
\* pd.cut(power, bins=20): 20 equal-width right-closed intervals between
\* the smallest and the largest value, the lowest edge moved down by 0.1 %
\* of the range so that the smallest value falls in the first one.  The
\* column has at least two different values.
PowerBins == 20

PowerBin(v, mn, mx) ==
    IF v = mn THEN 1
    ELSE ((v - mn) * PowerBins + (mx - mn) - 1) \div (mx - mn)

\* power_range.mid, in 1/2000 W
BinMid(k, mn, mx) ==
    2000 * mn + 50 * (2 * k - 1) * (mx - mn) - (IF k = 1 THEN mx - mn ELSE 0)

\* Fallback default
FallbackStablePower == 2000 * 400

\* 1 / (1 + cycles / (samples / 60)), in 1/100000
StabilityOfBin(samples, cycles) == (100000 * samples) \div (samples + 60 * cycles)

\* the rows of stability_by_power: one per bin with at least 30 samples
stability_by_power(frame, state_change) ==
    LET s == frame.power
        mn == MinSeq(s)
        mx == MaxSeq(s)
        bin == [i \in DOMAIN s |-> PowerBin(s[i], mn, mx)]
        used == {bin[i] : i \in DOMAIN s}
        group(k) == {i \in DOMAIN s : bin[i] = k}
        row(k) == LET g == group(k)
                      cycles == Cardinality({i \in g : state_change[i] = 1})
                  IN  [bin |-> k, power |-> BinMid(k, mn, mx),
                       samples |-> Cardinality(g), cycles |-> cycles,
                       stable |-> Cardinality(g) > 240 * cycles,
                       stability |-> StabilityOfBin(Cardinality(g), cycles)]
    IN  {row(k) : k \in {b \in used : Cardinality(group(b)) >= 30}}

\* min_stable_power, in 1/2000 W
_discover_stable_threshold(frame, state_change) ==
    LET rows == stability_by_power(frame, state_change)
        stable_regions == {r \in rows : r.stable}
        prev(r) == CHOOSE o \in rows :
                       /\ o.power < r.power
                       /\ \A x \in rows : x.power < r.power => x.power <= o.power
        first == CHOOSE r \in rows : \A o \in rows : r.power <= o.power
        stability_diff(r) == r.stability - prev(r).stability
        diffed == rows \ {first}
    IN  IF rows = {} THEN FallbackStablePower
        ELSE IF stable_regions # {}
        THEN (CHOOSE r \in stable_regions :
                 \A o \in stable_regions : r.power <= o.power).power
        ELSE IF diffed = {} THEN first.power
        ELSE (CHOOSE r \in diffed :
                 /\ \A o \in diffed : stability_diff(o) <= stability_diff(r)
                 /\ \A o \in diffed :
                        stability_diff(o) = stability_diff(r) => r.power <= o.power).power

\* ---- _discover_regions ------------------------------------------------------
\* feature_df.index.hour
HourOf(frame, i) == (((i - 1) * frame.freq) \div 60) % 24

\* n_clusters
ClusterCount(n) == Max2(2, Min2(5, n \div 200))

\* KMeans(n_clusters, random_state=42) on the scaled features power and hour
\* gives every row one of n_clusters labels.  Which rows share a label
\* depends on the scaled distances; two labellings are followed here, the
\* one where power dominates and the one where the hour dominates.
Clusterings == {"by_power", "by_hour"}

\* the label of row i among k clusters; mn and mx are the column's extremes
ClusterOf(frame, clustering, k, mn, mx, i) ==
    IF clustering = "by_power"
    THEN Min2(k - 1, ((frame.power[i] - mn) * k) \div (mx - mn))
    ELSE (HourOf(frame, i) * k) \div 24

\* avg_power decides the first part of the name
RegionLoad(total, count) ==
    IF total < 300 * count THEN "Niedriglast (instabil)"
    ELSE IF total < 600 * count THEN "Teillast"
    ELSE IF total < 1200 * count THEN "Mittellast"
    ELSE "Volllast"

\* stability > 0.8 and stability < 0.5 decide the second part
RegionMark(cycling, count) ==
    IF 5 * cycling < count THEN "Stabil"
    ELSE IF 2 * cycling > count THEN "Instabil"
    ELSE ""

\* cluster_data["power"].sum(), level by level
RECURSIVE SumOfRows(_, _, _)
SumOfRows(s, rows, levels) ==
    IF levels = {} THEN 0
    ELSE LET v == CHOOSE x \in levels : TRUE
         IN  v * Cardinality({i \in rows : s[i] = v})
             + SumOfRows(s, rows, levels \ {v})

\* OperatingRegion of one cluster; stability_score in thousandths
OperatingRegion(frame, state_change, rows) ==
    LET s == frame.power
        cycling == Cardinality({i \in rows : state_change[i] > 0})
        count == Cardinality(rows)
    IN  [load |-> RegionLoad(SumOfRows(s, rows, {s[i] : i \in rows}), count),
         mark |-> RegionMark(cycling, count),
         power_range |-> <<CHOOSE v \in {s[i] : i \in rows} :
                               \A i \in rows : v <= s[i],
                           CHOOSE v \in {s[i] : i \in rows} :
                               \A i \in rows : s[i] <= v>>,
         stability_score |-> (1000 * (count - cycling)) \div count,
         sample_count |-> count]

\* regions.sort(key=power_range[0]): stable, so equal keys keep cluster order
RECURSIVE InsertRegion(_, _)
InsertRegion(sorted, region) ==
    IF sorted = <<>> THEN <<region>>
    ELSE IF region.power_range[1] < sorted[Len(sorted)].power_range[1]
    THEN Append(InsertRegion(SubSeq(sorted, 1, Len(sorted) - 1), region),
                sorted[Len(sorted)])
    ELSE Append(sorted, region)

RECURSIVE RegionsFrom(_, _, _, _, _)
RegionsFrom(frame, state_change, label, cluster_id, n_clusters) ==
    IF cluster_id >= n_clusters THEN <<>>
    ELSE LET rows == {i \in DOMAIN frame.power : label[i] = cluster_id}
             rest == RegionsFrom(frame, state_change, label, cluster_id + 1, n_clusters)
         IN  IF Cardinality(rows) < 30 THEN rest
             ELSE <<OperatingRegion(frame, state_change, rows)>> \o rest

RECURSIVE SortRegions(_)
SortRegions(regions) ==
    IF regions = <<>> THEN <<>>
    ELSE InsertRegion(SortRegions(SubSeq(regions, 1, Len(regions) - 1)),
                      regions[Len(regions)])

_discover_regions(frame, state_change, clustering) ==
    IF Len(frame.power) < 100 THEN <<>>
    ELSE LET n_clusters == ClusterCount(Len(frame.power))
             mn == MinSeq(frame.power)
             mx == MaxSeq(frame.power)
             label == [i \in DOMAIN frame.power |->
                          ClusterOf(frame, clustering, n_clusters, mn, mx, i)]
         IN  SortRegions(RegionsFrom(frame, state_change, label, 0, n_clusters))

\* ---- _generate_recommendation -----------------------------------------------
\* the lines of the recommendation, each named by its leading words
_generate_recommendation(result) ==
    IF ~result.sufficient_data THEN <<"Noch nicht genug Daten">>
    ELSE LET regions == {result.regions[i] : i \in DOMAIN result.regions}
             lines ==
                 (IF result.min_stable_power # 0
                  THEN <<"Erkannte Mindestlast">> ELSE <<>>)
                 \o (IF \E r \in regions : r.stability_score < 500
                     THEN <<"Instabilster Bereich">> ELSE <<>>)
                 \o (IF \E r \in regions : r.mark = "Stabil"
                     THEN <<"Stabilster Bereich">> ELSE <<>>)
         IN  IF lines = <<>> THEN <<"Analyse abgeschlossen.">> ELSE lines

\* ---- analyze ----------------------------------------------------------------
\* AnalysisResult(); data_quality_score and analysis_timestamp are left out
AnalysisResult ==
    [min_stable_power |-> NoMinStablePower, regions |-> <<>>,
     sufficient_data |-> FALSE, recommendation |-> <<>>]

\* Analyzer._last_result = None; a cached result r is <<r>>
NoResult == <<>>

\* the result analyze returns; raised is FALSE on every path
analyze(frame, clustering) ==
    LET check == check_data_sufficiency(frame)
        result == [AnalysisResult EXCEPT !.sufficient_data = check.sufficient,
                                         !.recommendation = <<check.message>>]
    IN  IF ~check.sufficient THEN result
        ELSE LET cols == _add_cycling_detection(frame)
                 found == [result EXCEPT
                     !.min_stable_power =
                         _discover_stable_threshold(frame, cols.state_change),
                     !.regions =
                         _discover_regions(frame, cols.state_change, clustering)]
             IN  [found EXCEPT !.recommendation = _generate_recommendation(found)]

\* get_dashboard_data
get_dashboard_data(last) ==
    IF last = NoResult
    THEN [status |-> "waiting", sufficient_data |-> FALSE]
    ELSE [status |-> IF last[1].sufficient_data THEN "ready" ELSE "observing",
          sufficient_data |-> last[1].sufficient_data,
          min_stable_power |-> last[1].min_stable_power,
          regions |-> last[1].regions,
          recommendation |-> last[1].recommendation]

\* ---- histories ---------------------------------------------------------------
\* The stored power history: one row every freq minutes from midnight on.
Freqs == {1, 5}

Patterns == {"alternating", "around_500", "daily_pause", "two_levels"}

\* the i-th reading of a pattern
PowerAt(pattern, i) ==
    CASE pattern = "alternating" -> IF i % 2 = 1 THEN 100 ELSE 1000
      [] pattern = "around_500" -> <<485, 500, 515, 500>>[((i - 1) % 4) + 1]
      [] pattern = "daily_pause" ->
             IF (i - 1) % 720 < 120 THEN 60
             ELSE IF i % 2 = 1 THEN 500 ELSE 520
      [] pattern = "two_levels" -> IF (i - 1) % 600 < 300 THEN 400 ELSE 900

\* the longest history looked at
MaxFrameSamples == 1441

\* the history is read when it has one of these lengths
Checkpoints == {100, 289, 999, 1000, 1440, MaxFrameSamples}

History(pattern, n, freq) == Frame([i \in 1..n |-> PowerAt(pattern, i)], freq)

Histories ==
    {History(pattern, n, freq) :
        pattern \in Patterns, n \in Checkpoints, freq \in Freqs}

NoAnalyzerCall == [op |-> "none"]

\* CyclingPredictor without a model file
Untrained == [is_trained |-> FALSE]

\* the invocations of _control_loop that can be in progress at once: the
\* scheduler starts one every minute, and nothing in the app waits for the
\* one before
Ticks == {1, 2}

\* an invocation of _control_loop that is not in progress; mode, answer,
\* analysis and action are the locals of the invocation that ran last
IdleLoop ==
    [pc |-> "idle", mode |-> "none", answer |-> FALSE, analysis |-> NoAnalysis,
     action |-> NoAction("")]

\* the app with a power sensor configured, before any callback ran
ConfiguredApp ==
    [power_sensor |-> TRUE, started |-> FALSE, callback |-> "none",
     loop |-> [k \in Ticks |-> IdleLoop]]

InitAnalyzer(frames) ==
    /\ df \in frames
    /\ _last_result = NoResult
    /\ ana = NoAnalyzerCall
    /\ predictor = Untrained
    /\ app = ConfiguredApp

\* the data store has recorded more rows of the same signal
Collect(histories) ==
    /\ \E h \in histories :
          /\ h.freq = df.freq
          /\ Len(h.power) > Len(df.power)
          /\ SubSeq(h.power, 1, Len(df.power)) = df.power
          /\ df' = h
    /\ UNCHANGED <<_last_result, ana, predictor, app>>

\* the record of one analyze call
AnalyzeCall(frame, result) ==
    [op |-> "analyze", samples |-> Len(frame.power), span |-> TimeSpan(frame),
     raised |-> FALSE,
     min_power |-> IF frame.power = <<>> THEN 0 ELSE MinSeq(frame.power),
     max_power |-> IF frame.power = <<>> THEN 0 ELSE MaxSeq(frame.power),
     result |-> result]

CheckDataSufficiency ==
    /\ ana' = [op |-> "check_data_sufficiency", samples |-> Len(df.power),
               span |-> TimeSpan(df), result |-> check_data_sufficiency(df)]
    /\ UNCHANGED <<df, _last_result, predictor, app>>

Analyze ==
    /\ \E clustering \in Clusterings :
          LET result == analyze(df, clustering)
          IN  /\ ana' = AnalyzeCall(df, result)
              /\ _last_result' = IF result.sufficient_data THEN <<result>>
                                 ELSE _last_result
    /\ UNCHANGED <<df, predictor, app>>

GetDashboardData ==
    /\ ana' = [op |-> "get_dashboard_data", result |-> get_dashboard_data(_last_result)]
    /\ UNCHANGED <<df, _last_result, predictor, app>>

\* ========================================================================
\* The supervising app (climatiq/appdaemon/climatiq_app.py)
\* ========================================================================
\* what a query of the data store does: it answers, or the request fails
StoreOutcomes == {"data", "raises"}

\* what predictor.train returns: success True or False
TrainOutcomes == {"success", "failure"}

\* the rows of the last `hours` hours
LastHours(frame, hours) ==
    LET keep == Min2(Len(frame.power), (60 * hours) \div frame.freq + 1)
    IN  IF keep = Len(frame.power) THEN frame
        ELSE Frame(SubSeq(frame.power, Len(frame.power) - keep + 1,
                          Len(frame.power)),
                   frame.freq)

\* GROUP BY time(minutes): one row per interval, the mean of its readings
Resample(frame, minutes) ==
    LET per == Max2(1, minutes \div frame.freq)
        rows == (Len(frame.power) + per - 1) \div per
        group(k) == SubSeq(frame.power, (k - 1) * per + 1,
                           Min2(k * per, Len(frame.power)))
    IN  IF per = 1 THEN frame
        ELSE Frame([k \in 1..rows |-> SumSeq(group(k)) \div Len(group(k))],
                   minutes)

\* influx.get_entity_data(power_sensor, now - hours, now, resample); no
\* sensor configured selects no rows
get_entity_data(hours, minutes) ==
    IF app.power_sensor THEN Resample(LastHours(df, hours), minutes) ELSE NoFrame

\* the histories the store of the supervised app holds
StoredHistories == {History("daily_pause", n, 1) : n \in {100, MaxFrameSamples}}

\* faulty variant: a successful training stores the model and keeps the mode
TrainedModel_never_promotes(mode, pred, store, outcome) ==
    IF store = "raises" \/ get_entity_data(24 * 14, 1).power = <<>>
          \/ outcome # "success"
    THEN [mode |-> mode, predictor |-> pred]
    ELSE [mode |-> mode, predictor |-> [pred EXCEPT !.is_trained = TRUE]]

\* faulty variant: LEARNING is left whatever predictor.train returned
TrainedModel_promotes_on_failure(mode, pred, store, outcome) ==
    IF store = "raises" \/ get_entity_data(24 * 14, 1).power = <<>>
    THEN [mode |-> mode, predictor |-> pred]
    ELSE [mode |-> IF mode = "learning" THEN "active" ELSE mode,
          predictor |-> [pred EXCEPT !.is_trained = @ \/ outcome = "success"]]

\* mode and predictor after _train_model; store is the outcome of its
\* query, outcome that of predictor.train
TrainedModel(mode, pred, store, outcome) ==
    IF store = "raises" \/ get_entity_data(24 * 14, 1).power = <<>>
          \/ outcome # "success"
    THEN [mode |-> mode, predictor |-> pred]
    ELSE [mode |-> IF mode = "learning" THEN "active" ELSE mode,
          predictor |-> [pred EXCEPT !.is_trained = TRUE]]

\* initialize() runs _determine_initial_mode once, before any listener
_determine_initial_mode(store) ==
    /\ ~app.started
    /\ app' = [app EXCEPT !.started = TRUE, !.callback = "_determine_initial_mode"]
    /\ IF ~app.power_sensor \/ store = "raises"
       THEN /\ observer' = [observer EXCEPT !.mode = "observation"]
            /\ UNCHANGED ana
       ELSE LET frame == get_entity_data(24, 5)
                check == check_data_sufficiency(frame)
            IN  /\ ana' = [op |-> "check_data_sufficiency",
                           samples |-> Len(frame.power), span |-> TimeSpan(frame),
                           result |-> check]
                /\ observer' = [observer EXCEPT !.mode =
                       IF ~check.sufficient THEN "observation"
                       ELSE IF predictor.is_trained THEN "active"
                       ELSE "learning"]
    /\ UNCHANGED <<df, _last_result, predictor>>
    /\ UNCHANGED <<detector, power_series, det, _power_history, _power_times, upd, summary>>

\* the hourly analysis; a sufficient result in OBSERVATION switches to
\* LEARNING and trains at once (the query and the training of _train_model
\* have their own outcomes)
_update_analysis(store, clustering) ==
    /\ app.started
    /\ app' = [app EXCEPT !.callback = "_update_analysis"]
    /\ LET frame == get_entity_data(24 * 7, 1)
       IN  IF store = "raises" \/ frame.power = <<>>
           THEN UNCHANGED <<ana, _last_result, predictor, observer>>
           ELSE LET result == analyze(frame, clustering)
                IN  /\ ana' = AnalyzeCall(frame, result)
                    /\ _last_result' = IF result.sufficient_data THEN <<result>>
                                       ELSE _last_result
                    /\ IF result.sufficient_data /\ observer.mode = "observation"
                       THEN \E train_store \in StoreOutcomes, outcome \in TrainOutcomes :
                              LET trained == TrainedModel("learning", predictor,
                                                          train_store, outcome)
                              IN  /\ observer' = [observer EXCEPT !.mode = trained.mode]
                                  /\ predictor' = trained.predictor
                       ELSE UNCHANGED <<predictor, observer>>
    /\ UNCHANGED df
    /\ UNCHANGED <<detector, power_series, det, _power_history, _power_times, upd, summary>>

\* the daily training
_train_model(store, outcome) ==
    /\ app.started
    /\ app' = [app EXCEPT !.callback = "_train_model"]
    /\ LET trained == TrainedModel(observer.mode, predictor, store, outcome)
       IN  /\ observer' = [observer EXCEPT !.mode = trained.mode]
           /\ predictor' = trained.predictor
    /\ UNCHANGED <<df, _last_result, ana>>
    /\ UNCHANGED <<detector, power_series, det, _power_history, _power_times, upd, summary>>

\* the OptimizerStatus handed to the Controller; the units in the order
\* of the configuration
StatusOf(status, order) ==
    [cycling_risk |-> status.cycling_risk,
     power_consumption |-> status.power_consumption,
     units |-> [i \in DOMAIN order |->
                   Unit(order[i], status.units[order[i]].is_on,
                        status.units[order[i]].target_temp)]]

\* ---- rules configurations ----------------------------------------------
Rules(normal, emergency, threshold) ==
    [temp_tolerance_cold |-> 15, temp_tolerance_warm |-> 10,
     target_step |-> 5, target_min |-> 160, target_max |-> 240,
     min_action_interval_minutes |-> normal,
     emergency_action_interval_minutes |-> emergency,
     max_actions_per_cycle |-> 2,
     emergency_delta_threshold |-> threshold]

HysteresisConfigs == {<<4, 2>>, <<5, NotConfigured>>}

ThresholdConfigs ==
    { CfgValue("absent", 0), CfgValue("num", 30), CfgValue("num", 0),
      CfgValue("num", -10), CfgValue("str", 0), CfgValue("nan", 0) }

InitApp(configs) ==
    /\ now = 0
    /\ last_action_time = [room \in Rooms |-> NoTime]
    /\ rules \in configs
    /\ unstable_zones = FallbackUnstableZones
    /\ InitSensors({SingleUnit})
    /\ InitDevice
    /\ cyc = IdleCycle
    /\ InitCore
    /\ InitAnalyzer({NoFrame})
    /\ InitAnalysis({ObserverDetector})

NextApp(horizon, readings) ==
    \/ Tick(horizon) /\ UNCHANGED <<coreVars, analysisVars, analyzerVars, deviceVars>>
    \/ ControlCycleUnavailable /\ UNCHANGED <<coreVars, analysisVars, analyzerVars, deviceVars>>
    \/ \E power \in Powers, rooms \in [Rooms -> readings],
          is_night_mode \in BOOLEAN, ok \in SUBSET (1..2) :
            ControlCycle(power, rooms, is_night_mode, ok) /\ UNCHANGED <<coreVars, analysisVars, analyzerVars, deviceVars>>

\* cooldown configurations vary, emergency threshold at its default
InitCooldown ==
    InitApp({Rules(h[1], h[2], CfgValue("absent", 0)) : h \in HysteresisConfigs})

SpecCooldown == InitCooldown /\ [][NextApp(MaxTime, CooldownReadings)]_vars

\* emergency threshold configurations vary, cooldown as in the unit tests
InitEmergency == InitApp({Rules(4, 2, th) : th \in ThresholdConfigs})

SpecEmergency == InitEmergency /\ [][NextApp(MaxEmergencyTime, RoomReadings)]_vars

\* ---- comfort decisions and the cap on actions per cycle ------------------
\* rules["stability"]["max_actions_per_cycle"]
ActionCaps == {1, 2}

ComfortReadings ==
    { Reading(-40, 210, FALSE),   \* very cold, unit off
      Reading(-20, 210, TRUE),    \* cold, on, room to raise the target
      Reading(-20, 238, TRUE),    \* cold, on, less than one step below target_max
      Reading(-20, 240, TRUE),    \* cold, on, target at target_max
      Reading(-20, 250, TRUE),    \* cold, on, target set above target_max
      Reading(0, 210, TRUE),      \* on target, on
      Reading(30, 210, TRUE) }    \* overheated, on

InitComfort ==
    InitApp({ [Rules(4, 2, CfgValue("absent", 0)) EXCEPT !.max_actions_per_cycle = c]
                : c \in ActionCaps })

SpecComfort == InitComfort /\ [][NextApp(MaxComfortTime, ComfortReadings)]_vars

\* ---- CyclingDetector called on short series ------------------------------
\* below off, at off, at on, and three levels above on
PowerLevels == {100, 150, 300, 400, 410, 900}

\* the unit tests' detector, and one with a two-minute window
DetectorConfigs ==
    { CyclingDetector(300, 150, 200, 400, 5), CyclingDetector(300, 150, 200, 400, 2) }

InitDetector ==
    /\ now = 0
    /\ last_action_time = [room \in Rooms |-> NoTime]
    /\ rules = Rules(4, 2, CfgValue("absent", 0))
    /\ unstable_zones = FallbackUnstableZones
    /\ InitSensors({SingleUnit})
    /\ InitDevice
    /\ cyc = IdleCycle
    /\ InitCore
    /\ InitAnalyzer({NoFrame})
    /\ InitAnalysis(DetectorConfigs)

NextDetector ==
    \/ \E power \in PowerLevels :
          /\ Len(power_series) < MaxSamples
          /\ Sample(power)
          /\ UNCHANGED <<appVars, coreVars, analyzerVars, deviceVars>>
    \/ DetectCycles /\ UNCHANGED <<appVars, coreVars, analyzerVars, deviceVars>>
    \/ CalculateInstabilityScore /\ UNCHANGED <<appVars, coreVars, analyzerVars, deviceVars>>
    \/ DetectFluctuations /\ UNCHANGED <<appVars, coreVars, analyzerVars, deviceVars>>

SpecDetector == InitDetector /\ [][NextDetector]_vars

\* ---- Observer fed a steady power --------------------------------------
\* readings within 1 % of 1200 W, far above the on-threshold
SteadyPowers == {1200, 1210}

NextObserver ==
    \E value \in SteadyPowers :
        /\ observer.last_update < MaxHistorySamples
        /\ update_power(value, Now)
        /\ UNCHANGED <<appVars, coreVars, analyzerVars, deviceVars>>

InitObserver == InitApp({Rules(4, 2, CfgValue("absent", 0))})

SpecObserver == InitObserver /\ [][NextObserver]_vars

\* ---- detector and Observer fed a constant power ---------------------------
\* off, below the off-threshold, at the on-threshold, part load, full load
ConstantLevels == {0, 100, 300, 500, 1200}

Constant(s) == \A i \in DOMAIN s : s[i] = s[1]

InitConstant ==
    /\ now = 0
    /\ last_action_time = [room \in Rooms |-> NoTime]
    /\ rules = Rules(4, 2, CfgValue("absent", 0))
    /\ unstable_zones = FallbackUnstableZones
    /\ InitSensors({SingleUnit})
    /\ InitDevice
    /\ cyc = IdleCycle
    /\ InitCore
    /\ InitAnalyzer({NoFrame})
    /\ InitAnalysis({ObserverDetector, CyclingDetector(300, 150, 200, 400, 5)})

NextConstant ==
    \/ \E power \in ConstantLevels :
          /\ Len(power_series) < MaxHistorySamples
          /\ Constant(Append(power_series, power))
          /\ Sample(power)
          /\ UNCHANGED <<appVars, coreVars, analyzerVars, deviceVars>>
    \/ DetectCycles /\ UNCHANGED <<appVars, coreVars, analyzerVars, deviceVars>>
    \/ CalculateInstabilityScore /\ UNCHANGED <<appVars, coreVars, analyzerVars, deviceVars>>
    \/ DetectFluctuations /\ UNCHANGED <<appVars, coreVars, analyzerVars, deviceVars>>
    \/ \E value \in ConstantLevels :
          /\ observer.last_update < MaxHistorySamples
          /\ Constant(Append(_power_history, value))
          /\ update_power(value, Now)
          /\ UNCHANGED <<appVars, coreVars, analyzerVars, deviceVars>>

SpecConstant == InitConstant /\ [][NextConstant]_vars

\* ---- Observer fed a compressor that switches on and off ----------------------
\* off below the off-threshold, on above the on-threshold
OnOffPowers == {50, 500}

NextOnOff ==
    \E value \in OnOffPowers :
        /\ observer.last_update < MaxHistorySamples
        /\ update_power(value, Now)
        /\ UNCHANGED <<appVars, coreVars, analyzerVars, deviceVars>>

SpecOnOff == InitObserver /\ [][NextOnOff]_vars

\* ---- Observer: the window fills up and evicts --------------------------------
\* a power that rises by one Watt a minute: the n-th sample is n W
RampPower(n) == n

\* the dashboard is read and units report while the power callbacks run; the
\* run is followed up to the first dashboard read
NextWindow ==
    \/ /\ observer.last_update < MaxWindowSamples
       /\ summary = NoSummary
       /\ update_power(RampPower(observer.last_update + 1), Now)
       /\ UNCHANGED <<appVars, coreVars, analyzerVars, deviceVars>>
    \/ update_unit("wohnzimmer", [is_on |-> TRUE]) /\ UNCHANGED <<appVars, coreVars, analyzerVars, deviceVars>>
    \/ GetSummary /\ UNCHANGED <<appVars, coreVars, analyzerVars, deviceVars>>

SpecWindow == InitObserver /\ [][NextWindow]_vars

\* ---- Observer: unit updates ------------------------------------------------
\* config["indoor_units"]: name and climate entity of each unit
indoor_units ==
    [wohnzimmer |-> "climate.wohnzimmer", schlafzimmer |-> "climate.schlafzimmer"]

\* the partial updates the app's callbacks build (_on_unit_change sends all
\* six fields, _on_temp_change current_temp alone), and single-field ones
UnitUpdates(name) ==
    { [entity_id |-> indoor_units[name], is_on |-> TRUE, current_temp |-> 205,
       target_temp |-> 220, fan_mode |-> "auto", hvac_mode |-> "heat"],
      [entity_id |-> indoor_units[name], is_on |-> FALSE, current_temp |-> 205,
       target_temp |-> NoTemp, fan_mode |-> "none", hvac_mode |-> "off"],
      [current_temp |-> 215],
      [is_on |-> TRUE],
      [target_temp |-> 210],
      [entity_id |-> indoor_units[name]] }

NextUnits ==
    \/ \E name \in DOMAIN indoor_units :
          \E data \in UnitUpdates(name) :
              update_unit(name, data) /\ UNCHANGED <<appVars, coreVars, analyzerVars, deviceVars>>
    \/ GetSummary /\ UNCHANGED <<appVars, coreVars, analyzerVars, deviceVars>>

SpecUnits == InitObserver /\ [][NextUnits]_vars

\* ---- Controller: cooldown and execution ---------------------------------
\* actions handed to execute_action by a caller (as the unit tests do)
ExecInputs ==
    { NoAction(""), ControlAction("enable_unit", "test_unit", NoTemp, NoTemp, "test") }

CallbackOutcomes == {"true", "false", "raises"}

NextShouldAct ==
    \/ ClockTick(MaxClock) /\ UNCHANGED <<appVars, analysisVars, analyzerVars, deviceVars>>
    \/ SetActionCallback /\ UNCHANGED <<appVars, analysisVars, analyzerVars, deviceVars>>
    \/ \E mode \in SystemMode : ShouldAct(mode) /\ UNCHANGED <<appVars, analysisVars, analyzerVars, deviceVars>>
    \/ \E action \in ExecInputs, outcome \in CallbackOutcomes :
          /\ stats.actions_taken < MaxActions
          /\ ExecuteAction(action, outcome)
          /\ UNCHANGED <<appVars, analysisVars, analyzerVars, deviceVars>>

InitController == InitApp({Rules(4, 2, CfgValue("absent", 0))})

SpecShouldAct == InitController /\ [][NextShouldAct]_vars

\* ---- Controller: decisions ----------------------------------------------
UnitPresets ==
    { <<Unit("wohnzimmer", TRUE, 210), Unit("arbeitszimmer", FALSE, NoTemp),
        Unit("schlafzimmer", FALSE, NoTemp)>>,
      <<Unit("wohnzimmer", TRUE, 210), Unit("arbeitszimmer", TRUE, 200),
        Unit("schlafzimmer", TRUE, 200)>>,
      <<Unit("wohnzimmer", TRUE, 225), Unit("arbeitszimmer", TRUE, 200),
        Unit("schlafzimmer", TRUE, 200)>>,
      <<Unit("wohnzimmer", TRUE, NoTemp), Unit("arbeitszimmer", TRUE, NoTemp),
        Unit("schlafzimmer", TRUE, NoTemp)>>,
      \* an off unit without a configured priority, listed first
      <<Unit("kinderzimmer", FALSE, NoTemp), Unit("arbeitszimmer", FALSE, NoTemp),
        Unit("wohnzimmer", TRUE, 210)>>,
      \* the first active unit is set to comfort min_temp (18.0)
      <<Unit("wohnzimmer", TRUE, 180), Unit("arbeitszimmer", TRUE, 200),
        Unit("schlafzimmer", TRUE, 200)>> }

\* <<cycling_risk, power_std, power_spread>>
MetricPresets ==
    { <<20, 30, 100>>, <<60, 50, 300>>, <<70, 30, 100>>, <<20, 200, 100>>,
      <<20, 30, 500>> }

\* <<power_consumption, min_stable_power>>
PowerPresets ==
    { <<400, NoMinStablePower>>, <<450, NoMinStablePower>>, <<500, NoMinStablePower>>,
      <<500, 550>>, <<600, 550>> }

Decisions == stats.stability_actions + stats.night_mode_actions + stats.gradual_nudges

NextDecide ==
    \/ SetActionCallback /\ UNCHANGED <<appVars, analysisVars, analyzerVars, deviceVars>>
    \/ \E units \in UnitPresets, m \in MetricPresets, pw \in PowerPresets,
          night \in BOOLEAN :
          /\ Decisions < MaxDecisions
          /\ DecideAction([cycling_risk |-> m[1], power_consumption |-> pw[1],
                           units |-> units],
                          [power_std |-> m[2], power_spread |-> m[3],
                           min_stable_power |-> pw[2]],
                          night)
          /\ UNCHANGED <<appVars, analysisVars, analyzerVars, deviceVars>>
    \/ \E outcome \in CallbackOutcomes :
          /\ ret.op = "decide_action"
          /\ stats.actions_taken < MaxActions
          /\ ExecuteAction(ret.action, outcome)
          /\ UNCHANGED <<appVars, analysisVars, analyzerVars, deviceVars>>

SpecDecide == InitController /\ [][NextDecide]_vars

\* ---- Analyzer on a growing history -----------------------------------------
InitHistory ==
    /\ now = 0
    /\ last_action_time = [room \in Rooms |-> NoTime]
    /\ rules = Rules(4, 2, CfgValue("absent", 0))
    /\ unstable_zones = FallbackUnstableZones
    /\ InitSensors({SingleUnit})
    /\ InitDevice
    /\ cyc = IdleCycle
    /\ InitCore
    /\ InitAnalyzer({Frame(<<>>, freq) : freq \in Freqs})
    /\ InitAnalysis({ObserverDetector})

NextAnalyzer ==
    \* the history is followed up to the first call made on it
    \/ ana = NoAnalyzerCall /\ Collect(Histories)
          /\ UNCHANGED <<appVars, coreVars, analysisVars, deviceVars>>
    \/ CheckDataSufficiency /\ UNCHANGED <<appVars, coreVars, analysisVars, deviceVars>>
    \/ Analyze /\ UNCHANGED <<appVars, coreVars, analysisVars, deviceVars>>
    \/ GetDashboardData /\ UNCHANGED <<appVars, coreVars, analysisVars, deviceVars>>

SpecAnalyzer == InitHistory /\ [][NextAnalyzer]_vars

\* ---- the supervising app and the core it drives ----------------------------
\* readings delivered while the app is supervised
MaxSupervisedSamples == 1

InitSupervisor ==
    /\ now = 0
    /\ last_action_time = [room \in Rooms |-> NoTime]
    /\ rules = Rules(4, 2, CfgValue("absent", 0))
    /\ unstable_zones = FallbackUnstableZones
    /\ InitSensors({SingleUnit})
    /\ InitDevice
    /\ cyc = IdleCycle
    /\ InitCore
    /\ df = Frame(<<>>, 1)
    /\ _last_result = NoResult
    /\ ana = NoAnalyzerCall
    /\ predictor \in {[is_trained |-> trained] : trained \in BOOLEAN}
    /\ app \in {[ConfiguredApp EXCEPT !.power_sensor = sensor] : sensor \in BOOLEAN}
    /\ InitAnalysis({ObserverDetector})

\* the units the Controller is shown: those the Observer has heard of
KnownUnits == IF "wohnzimmer" \in DOMAIN observer.units THEN <<"wohnzimmer">> ELSE <<>>

\* one labelling is followed: the mode does not depend on the regions
SupervisedClusterings == {"by_power"}

\* decisions followed while the app is supervised
MaxSupervisedDecisions == 1

\* neither the Observer nor the Controller has been called
CoreUntouched ==
    ret = NoCall /\ observer.last_update = 0 /\ observer.units = <<>>

\* the callbacks of the supervising app; the hourly analysis is followed
\* until the core is first called, the training at any time
NextCallbacks ==
    \/ \E store \in StoreOutcomes :
          /\ _action_callback = "set"
          /\ _determine_initial_mode(store)
          /\ UNCHANGED <<appVars, coreVars, deviceVars>>
    \/ \E store \in StoreOutcomes, clustering \in SupervisedClusterings :
          /\ CoreUntouched
          /\ _update_analysis(store, clustering)
          /\ UNCHANGED <<appVars, coreVars, deviceVars>>
    \/ \E store \in StoreOutcomes, outcome \in TrainOutcomes :
          _train_model(store, outcome) /\ UNCHANGED <<appVars, coreVars, deviceVars>>

\* the operations of the core, called on the Observer's status
NextCoreCalls ==
    \/ /\ observer.last_update < MaxSupervisedSamples
       /\ update_power(500, Now)
       /\ UNCHANGED <<appVars, coreVars, analyzerVars, deviceVars>>
    \/ /\ update_unit("wohnzimmer", [is_on |-> TRUE, target_temp |-> 210])
       /\ UNCHANGED <<appVars, coreVars, analyzerVars, deviceVars>>
    \/ /\ ShouldAct(observer.mode)
       /\ UNCHANGED <<appVars, analysisVars, analyzerVars, deviceVars>>
    \/ /\ Decisions < MaxSupervisedDecisions
       /\ DecideAction(StatusOf(observer, KnownUnits), NoAnalysis, FALSE)
       /\ UNCHANGED <<appVars, analysisVars, analyzerVars, deviceVars>>
    \/ \E outcome \in CallbackOutcomes :
          /\ ret.op = "decide_action"
          /\ stats.actions_taken < MaxSupervisedDecisions
          /\ ExecuteAction(ret.action, outcome)
          /\ UNCHANGED <<appVars, analysisVars, analyzerVars, deviceVars>>

\* the app is followed up to the first dashboard read
NextSupervisor ==
    \/ summary = NoSummary /\ Collect(StoredHistories)
          /\ UNCHANGED <<appVars, coreVars, analysisVars, deviceVars>>
    \* initialize(): the Controller gets its callback, then the mode is set
    \/ ~app.started /\ SetActionCallback
          /\ UNCHANGED <<appVars, analysisVars, analyzerVars, deviceVars>>
    \/ summary = NoSummary /\ NextCallbacks
    \/ summary = NoSummary /\ app.started /\ NextCoreCalls
    \/ app.started /\ GetSummary /\ UNCHANGED <<appVars, coreVars, analyzerVars, deviceVars>>

SpecSupervisor == InitSupervisor /\ [][NextSupervisor]_vars

\* ---- power sensors that come and go -----------------------------------------
MaxSensorTime == 1

\* readings the Observer takes
MaxSensorSamples == 2

PowerStates ==
    {SensorState(kind, 0) : kind \in Unavailable}
    \cup {SensorState("num", 400), SensorState("num", 1200)}

OutdoorStates == {SensorState("unavailable", 0), SensorState("num", 50)}

SensedReadings == {Reading(-30, 210, TRUE), Reading(0, 210, TRUE)}

\* the sensor the supervising app listens to
ListenedSensor == outdoor_units[1]

InitPowerSensors ==
    /\ now = 0
    /\ last_action_time = [room \in Rooms |-> NoTime]
    /\ rules = Rules(4, 2, CfgValue("absent", 0))
    /\ unstable_zones = FallbackUnstableZones
    /\ cyc = IdleCycle
    /\ InitSensors({SingleUnit, TwoUnits})
    /\ InitDevice
    /\ InitCore
    /\ InitAnalyzer({NoFrame})
    /\ InitAnalysis({ObserverDetector})

\* sensor states change between two cycles
NextSensors ==
    \/ Tick(MaxSensorTime) /\ UNCHANGED <<coreVars, analysisVars, analyzerVars, deviceVars>>
    \/ \E state \in PowerStates :
          /\ cyc.path = "idle"
          /\ observer.last_update < MaxSensorSamples
          /\ SensorChange(ListenedSensor, state)
          /\ _on_power_change(state)
          /\ UNCHANGED <<coreVars, analyzerVars, deviceVars>>
    \/ \E i \in DOMAIN outdoor_units, state \in PowerStates :
          /\ cyc.path = "idle"
          /\ outdoor_units[i] # ListenedSensor
          /\ SensorChange(outdoor_units[i], state)
          /\ UNCHANGED <<coreVars, analysisVars, analyzerVars, deviceVars>>
    \/ \E state \in OutdoorStates :
          /\ cyc.path = "idle"
          /\ SensorChange("outdoor_temp", state)
          /\ UNCHANGED <<coreVars, analysisVars, analyzerVars, deviceVars>>
    \/ \E rooms \in [Rooms -> SensedReadings], is_night_mode \in BOOLEAN,
          ok \in SUBSET (1..2) :
          /\ SensedControlCycle(rooms, is_night_mode, ok)
          /\ UNCHANGED <<coreVars, analysisVars, analyzerVars, deviceVars>>

SpecSensors == InitPowerSensors /\ [][NextSensors]_vars

\* ---- the control loop of the supervising app ----------------------------------
\* _control_loop is followed in the stretches between which another
\* invocation can run: up to should_act, decide_action, execute_action.
\* minutes the control loop is followed
MaxLoopClock == 11

\* decisions and executed actions the control loop is followed for
MaxLoopDecisions == 2

MaxLoopActions == 2

\* analysis.get(...) on the dict get_dashboard_data returned: it has no
\* power_std and no power_spread; min_stable_power is brought to whole Watts
DashboardAnalysis(data) ==
    [power_std |-> 0, power_spread |-> 0,
     min_stable_power |-> IF "min_stable_power" \in DOMAIN data
                          THEN data.min_stable_power \div 2000
                          ELSE NoMinStablePower]

\* faulty variant: the mode is left to should_act, which refuses only
\* OBSERVATION and MANUAL
LoopAdmits_should_act_only(mode) == TRUE

\* if status.mode != SystemMode.ACTIVE: return
LoopAdmits(mode) == mode = "active"

\* invocation k from its start to the answer of should_act
_control_loop_check(k) ==
    /\ app.started
    /\ app.loop[k].pc = "idle"
    /\ IF ~LoopAdmits(observer.mode)
       THEN /\ app' = [app EXCEPT !.callback = "_control_loop",
                                  !.loop[k] = [IdleLoop EXCEPT !.mode = observer.mode]]
            /\ UNCHANGED coreVars
       ELSE LET answer == should_act(observer.mode, _last_action_time, clock)
            IN  /\ ShouldAct(observer.mode)
                /\ app' = [app EXCEPT
                       !.callback = "_control_loop",
                       !.loop[k] =
                           [IdleLoop EXCEPT
                               !.pc = IF answer THEN "should_act" ELSE "idle",
                               !.mode = observer.mode,
                               !.answer = answer,
                               !.analysis =
                                   DashboardAnalysis(get_dashboard_data(_last_result))]]
    /\ UNCHANGED <<df, _last_result, ana, predictor>>
    /\ UNCHANGED <<appVars, analysisVars, deviceVars>>

\* invocation k decides; NO_ACTION ends the invocation
_control_loop_decide(k, night) ==
    /\ app.loop[k].pc = "should_act"
    /\ LET status == StatusOf(observer, KnownUnits)
           action == decide_action(status, app.loop[k].analysis, night)
       IN  /\ DecideAction(status, app.loop[k].analysis, night)
           /\ app' = [app EXCEPT
                  !.loop[k].pc = IF action.action_type = "no_action" THEN "idle"
                                 ELSE "decided",
                  !.loop[k].action = action]
    /\ UNCHANGED <<df, _last_result, ana, predictor>>
    /\ UNCHANGED <<appVars, analysisVars, deviceVars>>

\* invocation k executes what it decided
_control_loop_execute(k, outcome) ==
    /\ app.loop[k].pc = "decided"
    /\ ExecuteAction(app.loop[k].action, outcome)
    /\ app' = [app EXCEPT !.loop[k].pc = "idle"]
    /\ UNCHANGED <<df, _last_result, ana, predictor>>
    /\ UNCHANGED <<appVars, analysisVars, deviceVars>>

\* what _execute_ha_action returns: True, or False when the unit has no
\* entity or the service call raised
HaOutcomes == {"true", "false"}

\* the states of the unit an _on_unit_change reports
LoopUnitUpdates == {[is_on |-> on, target_temp |-> 210] : on \in BOOLEAN}

\* the analysis is followed before the clock and the loop have started
NextControlLoop ==
    \/ /\ CoreUntouched /\ clock = 0
       /\ Collect(StoredHistories)
       /\ UNCHANGED <<appVars, coreVars, analysisVars, deviceVars>>
    \/ ~app.started /\ SetActionCallback
          /\ UNCHANGED <<appVars, analysisVars, analyzerVars, deviceVars>>
    \/ clock = 0 /\ Decisions = 0 /\ NextCallbacks
    \/ \E data \in LoopUnitUpdates :
          /\ app.started
          /\ update_unit("wohnzimmer", data)
          /\ UNCHANGED <<appVars, coreVars, analyzerVars, deviceVars>>
    \/ /\ app.started
       /\ ClockTick(MaxLoopClock)
       /\ UNCHANGED <<appVars, analysisVars, analyzerVars, deviceVars>>
    \/ \E k \in Ticks :
          /\ Decisions < MaxLoopDecisions
          /\ _control_loop_check(k)
    \/ \E k \in Ticks, night \in BOOLEAN : _control_loop_decide(k, night)
    \/ \E k \in Ticks, outcome \in HaOutcomes :
          /\ stats.actions_taken < MaxLoopActions
          /\ _control_loop_execute(k, outcome)

SpecControlLoop == InitSupervisor /\ [][NextControlLoop]_vars

\* ---- cycles while the zones are detected again ------------------------------
\* cycles followed
MaxDetectionTime == 1

\* 800 W lies in a detected unstable zone only, 1200 W in the fallback zone
DevicePowers == {600, 800, 1200}

\* both rooms on target, both cold with the unit off, or both so cold that
\* the cycle is an emergency
DeviceRooms ==
    { [room \in Rooms |-> Reading(0, 210, TRUE)],
      [room \in Rooms |-> Reading(-20, 210, FALSE)],
      [room \in Rooms |-> Reading(-40, 210, FALSE)] }

LoadOutcomes == {"data", "short", "raises"}

NextCycles(horizon) ==
    \/ NextCycle(horizon) /\ UNCHANGED <<coreVars, analysisVars, analyzerVars>>
    \/ \E power \in DevicePowers, rooms \in DeviceRooms, ok \in SUBSET (1..2) :
          /\ control_cycle_decide(power, rooms, FALSE, ok)
          /\ UNCHANGED <<coreVars, analysisVars, analyzerVars>>
    \/ control_cycle_log /\ UNCHANGED <<coreVars, analysisVars, analyzerVars>>

NextDetection ==
    \/ NextCycles(MaxDetectionTime)
    \/ \E load \in LoadOutcomes, zones \in DetectedZones :
          /\ detect_zones_from_history(load, zones)
          /\ UNCHANGED <<coreVars, analysisVars, analyzerVars>>
    \/ detect_zones_publish /\ UNCHANGED <<coreVars, analysisVars, analyzerVars>>

SpecDetection == InitController /\ [][NextDetection]_vars

\* ---- the daily counters ----------------------------------------------------
\* cycles and dates followed
MaxCounterTime == 2

MaxDate == 1

NextCounters ==
    \/ NextCycles(MaxCounterTime)
    \/ Midnight(MaxDate) /\ UNCHANGED <<coreVars, analysisVars, analyzerVars>>

SpecCounters == InitController /\ [][NextCounters]_vars

\* ---- the supervising app under a fair scheduler --------------------------------
\* initialize() as AppDaemon runs it at the start of the app
Initialize ==
    \/ ~app.started /\ SetActionCallback
          /\ UNCHANGED <<appVars, analysisVars, analyzerVars, deviceVars>>
    \/ \E store \in StoreOutcomes :
          /\ _action_callback = "set"
          /\ _determine_initial_mode(store)
          /\ UNCHANGED <<appVars, coreVars, deviceVars>>

\* the store goes on recording
Recording ==
    Collect(StoredHistories) /\ UNCHANGED <<appVars, coreVars, analysisVars, deviceVars>>

\* run_every(_update_analysis, ..., 3600)
HourlyAnalysis(store) ==
    \E clustering \in SupervisedClusterings :
        /\ _update_analysis(store, clustering)
        /\ UNCHANGED <<appVars, coreVars, deviceVars>>

\* run_daily(_train_model, 03:00)
DailyTraining(store, outcome) ==
    _train_model(store, outcome) /\ UNCHANGED <<appVars, coreVars, deviceVars>>

\* the unit reports its state (_on_unit_change)
UnitChange ==
    \E data \in LoopUnitUpdates :
        /\ app.started
        /\ update_unit("wohnzimmer", data)
        /\ UNCHANGED <<appVars, coreVars, analyzerVars, deviceVars>>

NextScheduled ==
    \/ Initialize
    \/ Recording
    \/ \E store \in StoreOutcomes : HourlyAnalysis(store)
    \/ \E store \in StoreOutcomes, outcome \in TrainOutcomes : DailyTraining(store, outcome)
    \/ UnitChange

\* the scheduler runs initialize() and keeps firing the hourly and the daily
\* callback; the store keeps recording and answers an analysis in the end,
\* and a training succeeds in the end.  Two weak fairness conditions are
\* written out as []<>~enabled \/ []<><<A>>_vars: that of initialize(),
\* enabled until the app has started, and that of the hourly analysis over
\* the states where it changes the mode (OBSERVATION with a sufficient
\* history, where it is enabled), a weaker demand than WF_vars of the
\* callback, so what holds under it holds under WF_vars as well
AnalysisDue ==
    /\ app.started
    /\ observer.mode = "observation"
    /\ check_data_sufficiency(get_entity_data(24 * 7, 1)).sufficient

\* the hourly analysis where it is due: it leaves OBSERVATION
DueAnalysis ==
    /\ observer'.mode # "observation"
    /\ app'.callback = "_update_analysis"
    /\ HourlyAnalysis("data")

FairScheduling ==
    /\ ([]<>app.started) \/ ([]<><<Initialize>>_vars)
    /\ WF_vars(Recording)
    /\ ([]<>~AnalysisDue) \/ ([]<><<AnalysisDue /\ DueAnalysis>>_vars)
    /\ WF_vars(DailyTraining("data", "success"))

SpecScheduled == InitSupervisor /\ [][NextScheduled]_vars /\ FairScheduling

\* ---- Observer handed a late sample ------------------------------------------
\* samples in the window, and late samples among them
MaxLateHistory == 11

MaxLateSamples == 1

\* samples of the window older than the sample before them
LateSamples == {i \in 2..Len(_power_times) : _power_times[i] < _power_times[i - 1]}

NextLateSample ==
    \/ \E value \in SteadyPowers :
          /\ Len(_power_history) < MaxLateHistory
          /\ update_power(value, Now)
          /\ UNCHANGED <<appVars, coreVars, analyzerVars, deviceVars>>
    \/ \E value \in SteadyPowers :
          /\ Len(_power_history) >= 9
          /\ Len(_power_history) < MaxLateHistory
          /\ Cardinality(LateSamples) < MaxLateSamples
          /\ update_power(value, MaxSeq(_power_times) - 1)
          /\ UNCHANGED <<appVars, coreVars, analyzerVars, deviceVars>>

SpecLateSample == InitObserver /\ [][NextLateSample]_vars

\* ========================================================================
\* Properties
\* ========================================================================
CycleRan == cyc.path \in {"waiting", "decided"}

\* the claim's cooldown for a cycle: the emergency interval (7 minutes when
\* the rules do not set one) in an emergency cycle, else the normal interval
ClaimedCooldown(emergency) ==
    IF emergency
    THEN (IF rules.emergency_action_interval_minutes = NotConfigured
          THEN 7
          ELSE rules.emergency_action_interval_minutes)
    ELSE rules.min_action_interval_minutes

\* C1: once an action for room U was executed at time T (last_action_time[U]
\* = T), decide_actions of a later cycle at time t emits an action for U only
\* if t >= T + min_action_interval_minutes in a normal cycle, and only if
\* t >= T + emergency_action_interval_minutes in an emergency cycle.
C1_CooldownRespected ==
    cyc.path = "decided" =>
        \A i \in DOMAIN cyc.actions :
            LET T == cyc.last[cyc.actions[i].room] IN
            T # NoTime => cyc.at >= T + ClaimedCooldown(cyc.is_emergency)

\* an emergency cycle acts on a room again after the emergency cooldown but
\* inside the normal cooldown
C1_Witness ==
    /\ cyc.path = "decided"
    /\ cyc.is_emergency
    /\ \E i \in DOMAIN cyc.actions :
          LET T == cyc.last[cyc.actions[i].room] IN
          /\ T # NoTime
          /\ cyc.at - T >= ClaimedCooldown(TRUE)
          /\ cyc.at - T < ClaimedCooldown(FALSE)

RoomOutsideTolerance(room) ==
    \/ room.delta < 0 - rules.temp_tolerance_cold
    \/ room.delta > rules.temp_tolerance_warm

\* C2: whenever some room's deviation exceeds its comfort tolerance and the
\* current power lies inside an unstable zone, control_cycle does not take
\* the waiting path and decides at least one action.
C2_EmergencyOverrideActs ==
    ( /\ CycleRan
      /\ \E name \in Rooms : RoomOutsideTolerance(cyc.state.rooms[name])
      /\ \E i \in DOMAIN unstable_zones :
            /\ unstable_zones[i].min <= cyc.state.power
            /\ cyc.state.power <= unstable_zones[i].max )
    => (cyc.path = "decided" /\ cyc.actions # <<>>)

C8_ComfortEmergencyFlag ==
    CycleRan =>
        (cyc.is_emergency <=>
            \E name \in Rooms : RoomOutsideTolerance(cyc.state.rooms[name]))

\* C9: every room whose cooldown has elapsed for a normal cycle has also
\* elapsed it for an emergency cycle at the same instant (the emergency
\* cooldown is the shorter one).
C9_EmergencyCooldownShorter ==
    \A name \in Rooms :
        LET T == last_action_time[name] IN
        (T # NoTime /\ now - T >= ClaimedCooldown(FALSE))
            => now - T >= ClaimedCooldown(TRUE)

\* C3: after execute_action succeeded at time T, should_act is false at
\* every time t with t - T < 10 minutes whatever the mode; in LEARNING or
\* ACTIVE mode it is true when no action has succeeded yet or when at
\* least 10 minutes have elapsed since the last success.
C3_ShouldActInterval ==
    ret.op = "should_act" =>
        /\ (succeeded_at # NoTime /\ clock - succeeded_at < 10) => ~ret.answer
        /\ ( /\ ret.mode \in {"learning", "active"}
             /\ (succeeded_at = NoTime \/ clock - succeeded_at >= 10) )
           => ret.answer

\* exactly 10 minutes after a success, should_act is true in ACTIVE mode
C3_Witness ==
    /\ ret.op = "should_act"
    /\ ret.mode = "active"
    /\ succeeded_at # NoTime
    /\ clock - succeeded_at = 10
    /\ ret.answer

\* C4: should_act is false whenever the mode is OBSERVATION or MANUAL, for
\* every value of the last-action time.
C4_NoActionInObservationOrManual ==
    (ret.op = "should_act" /\ ret.mode \in {"observation", "manual"}) => ~ret.answer

\* MANUAL mode, long after the last action: still false
C4_Witness ==
    /\ ret.op = "should_act"
    /\ ret.mode = "manual"
    /\ succeeded_at # NoTime
    /\ clock - succeeded_at >= 10
    /\ ~ret.answer

CooldownState == <<_last_action_time, _action_history, stats>>

\* C5: execute_action changes last-action time, history and statistics only
\* when the action is not NO_ACTION and the callback returned success; for
\* NO_ACTION it succeeds with the state unchanged; when the callback is
\* absent, returns false or raises, it fails with the state unchanged and
\* should_act answers the same before and after.
C5_FailedExecutionKeepsState ==
    [][ret'.op = "execute_action" =>
        /\ (CooldownState' # CooldownState) =>
              (ret'.action.action_type # "no_action" /\ ret'.callback = "true")
        /\ (ret'.action.action_type = "no_action") =>
              (ret'.success /\ CooldownState' = CooldownState)
        /\ ( /\ ret'.action.action_type # "no_action"
             /\ ret'.callback \in {"not_called", "false", "raises"} ) =>
              /\ ~ret'.success
              /\ CooldownState' = CooldownState
              /\ \A mode \in SystemMode :
                    should_act(mode, _last_action_time', clock')
                        = should_act(mode, _last_action_time, clock)
      ]_vars

\* a callback that raises, ten or more minutes after an earlier success
C5_Witness ==
    /\ ret.op = "execute_action"
    /\ ret.callback = "raises"
    /\ ~ret.success
    /\ succeeded_at # NoTime
    /\ clock - succeeded_at >= 10

RECURSIVE Executed(_, _)
Executed(history, strategy) ==
    IF history = <<>> THEN 0
    ELSE (IF Head(history).strategy = strategy THEN 1 ELSE 0)
         + Executed(Tail(history), strategy)

\* C6: each per-strategy counter equals the number of successfully executed
\* actions of that strategy, and their sum never exceeds actions_taken.
C6_StrategyCountersCountExecutions ==
    /\ stats.stability_actions = Executed(_action_history, "stability_targeting")
    /\ stats.night_mode_actions = Executed(_action_history, "night_mode")
    /\ stats.gradual_nudges = Executed(_action_history, "gradual_nudge")
    /\ stats.stability_actions + stats.night_mode_actions + stats.gradual_nudges
          <= stats.actions_taken

\* C10: decide_action tries the no-op gate, night mode, stability targeting
\* and gradual nudge in this order: whenever the system is unstable or below
\* min_stable_power and at least one unit is off the result is ENABLE_UNIT
\* (by night mode when it is night and the system is unstable), and
\* ADJUST_TEMP is returned only when the system is unstable and no unit is
\* off.
C10_StrategyOrder ==
    ret.op = "decide_action" =>
        LET unstable == \/ ret.status.cycling_risk > 60
                        \/ ret.analysis.power_std > 50
                        \/ ret.analysis.power_spread > 300
            floor == IF ret.analysis.min_stable_power = NoMinStablePower
                     THEN 450 ELSE ret.analysis.min_stable_power
            below == ret.status.power_consumption < floor
            some_off == \E i \in DOMAIN ret.status.units : ~ret.status.units[i].is_on
        IN  /\ (~unstable /\ ~below) => ret.action.action_type = "no_action"
            /\ ((unstable \/ below) /\ some_off) =>
                  /\ ret.action.action_type = "enable_unit"
                  /\ ret.action.strategy =
                        (IF ret.night /\ unstable THEN "night_mode"
                         ELSE "stability_targeting")
            /\ ret.action.action_type = "adjust_temp" => (unstable /\ ~some_off)

\* unstable at night with every unit on: the gradual nudge is what is left
C10_Witness ==
    /\ ret.op = "decide_action"
    /\ ret.night
    /\ ret.action.action_type = "adjust_temp"
    /\ ret.action.strategy = "gradual_nudge"

\* C11: decide_action returns NO_ACTION with a non-empty reason whenever
\* cycling_risk <= 0.6, power_std <= 50 W, power_spread <= 300 W and the
\* current power is at least min_stable_power (450 W when the analysis has
\* none), whatever the unit states and the time of day.
C11_NoActionWhenStable ==
    ( /\ ret.op = "decide_action"
      /\ ret.status.cycling_risk <= 60
      /\ ret.analysis.power_std <= 50
      /\ ret.analysis.power_spread <= 300
      /\ ret.status.power_consumption >=
            (IF ret.analysis.min_stable_power = NoMinStablePower
             THEN 450 ELSE ret.analysis.min_stable_power) )
    => (ret.action.action_type = "no_action" /\ reason(ret.action) # "")

\* every metric exactly at its threshold, at night, with units that are off
C11_Witness ==
    /\ ret.op = "decide_action"
    /\ ret.night
    /\ ret.status.cycling_risk = 60
    /\ ret.analysis.power_std = 50
    /\ ret.analysis.power_spread = 300
    /\ ret.status.power_consumption = 450
    /\ ret.analysis.min_stable_power = NoMinStablePower
    /\ \E i \in DOMAIN ret.status.units : ~ret.status.units[i].is_on
    /\ ret.action.action_type = "no_action"

ConfiguredPriority(name) ==
    IF name = "wohnzimmer" THEN 10
    ELSE IF name = "schlafzimmer" THEN 20
    ELSE 50

\* C12: whenever decide_action returns ENABLE_UNIT, the target is a unit
\* that is off and whose configured priority value (50 when none is
\* configured) is minimal among the units that are off.
C12_EnableLowestPriorityOffUnit ==
    (ret.op = "decide_action" /\ ret.action.action_type = "enable_unit") =>
        \E i \in DOMAIN ret.status.units :
            /\ ret.status.units[i].name = ret.action.target_unit
            /\ ~ret.status.units[i].is_on
            /\ \A j \in DOMAIN ret.status.units :
                  ~ret.status.units[j].is_on =>
                      ConfiguredPriority(ret.status.units[i].name)
                          <= ConfiguredPriority(ret.status.units[j].name)

\* the chosen unit is listed after an off unit with a larger priority value
C12_Witness ==
    /\ ret.op = "decide_action"
    /\ ret.action.action_type = "enable_unit"
    /\ \E i, j \in DOMAIN ret.status.units :
          /\ j < i
          /\ ret.status.units[i].name = ret.action.target_unit
          /\ ~ret.status.units[j].is_on
          /\ ConfiguredPriority(ret.status.units[j].name)
                > ConfiguredPriority(ret.status.units[i].name)

\* C13: every ADJUST_TEMP of the gradual nudge changes the setpoint of one
\* active unit by at most 0.5 degC and yields a setpoint within
\* [comfort target - 1.5, comfort target + 1.5]; the nudge goes up unless
\* that would exceed the upper bound, then down unless that would fall
\* below the lower bound.
C13_NudgeWithinComfortBand ==
    (ret.op = "decide_action" /\ ret.action.action_type = "adjust_temp") =>
        /\ \E i \in DOMAIN ret.status.units :
              /\ ret.status.units[i].name = ret.action.target_unit
              /\ ret.status.units[i].is_on
              /\ ret.status.units[i].target_temp = ret.action.previous
        /\ Abs(ret.action.temperature - ret.action.previous) <= 5
        /\ ret.action.temperature >= 210 - 15
        /\ ret.action.temperature <= 210 + 15
        /\ (ret.action.temperature > ret.action.previous
              \/ ret.action.previous + 3 > 210 + 15)

\* ---- decide_actions: what a decided cycle generated and emitted ----------
Emitted == {cyc.actions[i] : i \in DOMAIN cyc.actions}

Generated == {cyc.candidates[i] : i \in DOMAIN cyc.candidates}

Deviation(name) == Abs(cyc.state.rooms[name].delta)

PastCooldown(name) ==
    \/ cyc.last[name] = NoTime
    \/ cyc.at - cyc.last[name] >= ClaimedCooldown(cyc.is_emergency)

\* the cap dropped action a and kept only rooms that deviate at least as much
TrimmedForLargerDeviation(a) ==
    /\ a \notin Emitted
    /\ Len(cyc.actions) = rules.max_actions_per_cycle
    /\ \A kept \in Emitted : Deviation(kept.room) >= Deviation(a.room)

\* C14: decide_actions never returns more than max_actions_per_cycle
\* actions, and when it trims, every kept action belongs to a room whose
\* absolute deviation is at least that of every dropped action's room.
C14_ActionCap ==
    cyc.path = "decided" =>
        /\ Len(cyc.actions) <= rules.max_actions_per_cycle
        /\ Emitted \subseteq Generated
        /\ Len(cyc.candidates) <= rules.max_actions_per_cycle
              => cyc.actions = cyc.candidates
        /\ \A kept \in Emitted, dropped \in Generated \ Emitted :
              Deviation(kept.room) >= Deviation(dropped.room)

\* a trim that keeps a later action over an earlier one of a room that
\* deviates less
C14_Witness ==
    /\ cyc.path = "decided"
    /\ Len(cyc.candidates) > Len(cyc.actions)
    /\ \E i, j \in DOMAIN cyc.candidates :
          /\ i < j
          /\ cyc.candidates[i] \notin Emitted
          /\ cyc.candidates[j] \in Emitted
          /\ Deviation(cyc.candidates[j].room) > Deviation(cyc.candidates[i].room)

Overheated(name) ==
    cyc.state.rooms[name].is_on /\ cyc.state.rooms[name].delta > 20

\* C15 as stated: in heating mode, for a room that is on, past its cooldown
\* and more than 2.0 K above target, decide_actions emits a turn_off for
\* that room and no adjust_target or turn_on for it.
C15_OverheatingAlwaysTurnsOff ==
    cyc.path = "decided" =>
        \A name \in Rooms :
            (Overheated(name) /\ PastCooldown(name)) =>
                /\ \E a \in Emitted : a.room = name /\ a.action_type = "turn_off"
                /\ \A a \in Emitted :
                      a.room = name => a.action_type \notin {"adjust_target", "turn_on"}

\* C15 amended: for such a room decide_actions emits no adjust_target or
\* turn_on, and it emits a turn_off for the room unless the cap on actions
\* per cycle drops it in favour of rooms that deviate at least as much.
C15_OverheatingTurnsOffUnlessTrimmed ==
    cyc.path = "decided" =>
        \A name \in Rooms :
            (Overheated(name) /\ PastCooldown(name)) =>
                /\ \E a \in Generated :
                      /\ a.room = name
                      /\ a.action_type = "turn_off"
                      /\ (a \in Emitted \/ TrimmedForLargerDeviation(a))
                /\ \A a \in Emitted :
                      a.room = name => a.action_type \notin {"adjust_target", "turn_on"}

\* by day, a room acted on before and past its cooldown is turned off for
\* overheating
C15_Witness ==
    /\ cyc.path = "decided"
    /\ ~cyc.is_night_mode
    /\ \E name \in Rooms :
          /\ Overheated(name)
          /\ cyc.last[name] # NoTime
          /\ PastCooldown(name)
          /\ \E a \in Emitted :
                a.room = name /\ a.action_type = "turn_off" /\ a.reason = "overheating"

TooCold(name) == cyc.state.rooms[name].delta < 0 - rules.temp_tolerance_cold

\* C16 as stated: for a room past its cooldown with delta below
\* -temp_tolerance_cold, decide_actions emits turn_on if the room is off;
\* if it is on, it emits adjust_target whose new_target is the old target
\* raised by one target_step and clamped to target_max, never below the
\* old target and never above target_max.
C16_TooColdAlwaysActs ==
    cyc.path = "decided" =>
        \A name \in Rooms :
            (TooCold(name) /\ PastCooldown(name)) =>
                LET room == cyc.state.rooms[name] IN
                IF ~room.is_on
                THEN \E a \in Emitted : a.room = name /\ a.action_type = "turn_on"
                ELSE \E a \in Emitted :
                        /\ a.room = name
                        /\ a.action_type = "adjust_target"
                        /\ a.old_target = room.target_temp
                        /\ a.new_target =
                              (IF room.target_temp + rules.target_step > rules.target_max
                               THEN rules.target_max
                               ELSE room.target_temp + rules.target_step)
                        /\ a.new_target >= a.old_target
                        /\ a.new_target <= rules.target_max

\* C16 amended: for such a room decide_actions generates a turn_on if the
\* room is off; if it is on, it generates an adjust_target to
\* min(old target + target_step, target_max) unless that equals the old
\* target, and then it generates nothing for the room; new_target is never
\* above target_max and is below the old target only when the old target
\* was above target_max.  What it generates is emitted unless the cap on
\* actions per cycle drops it in favour of rooms that deviate at least as
\* much.
C16_TooColdActsUnlessAtMaxOrTrimmed ==
    cyc.path = "decided" =>
        \A name \in Rooms :
            (TooCold(name) /\ PastCooldown(name)) =>
                LET room == cyc.state.rooms[name]
                    raised == IF room.target_temp + rules.target_step > rules.target_max
                              THEN rules.target_max
                              ELSE room.target_temp + rules.target_step
                IN  IF ~room.is_on
                    THEN \E a \in Generated :
                            /\ a.room = name
                            /\ a.action_type = "turn_on"
                            /\ (a \in Emitted \/ TrimmedForLargerDeviation(a))
                    ELSE IF raised = room.target_temp
                    THEN \A a \in Generated : a.room # name
                    ELSE \E a \in Generated :
                            /\ a.room = name
                            /\ a.action_type = "adjust_target"
                            /\ a.old_target = room.target_temp
                            /\ a.new_target = raised
                            /\ a.new_target <= rules.target_max
                            /\ (a.new_target >= a.old_target
                                  \/ a.old_target > rules.target_max)
                            /\ (a \in Emitted \/ TrimmedForLargerDeviation(a))
                            /\ \A b \in Generated : b.room = name => b = a

\* a cold room that is on, acted on before and past its cooldown, gets its
\* target raised by less than one step because target_max clamps it
C16_Witness ==
    /\ cyc.path = "decided"
    /\ \E name \in Rooms :
          /\ TooCold(name)
          /\ cyc.state.rooms[name].is_on
          /\ cyc.last[name] # NoTime
          /\ PastCooldown(name)
          /\ \E a \in Emitted :
                /\ a.room = name
                /\ a.action_type = "adjust_target"
                /\ a.new_target = rules.target_max
                /\ a.new_target > a.old_target
                /\ a.new_target < a.old_target + rules.target_step

\* ---- CyclingDetector -----------------------------------------------------
\* the recorded states are a run of the two-threshold machine over the
\* series: ON when the power is above power_on_threshold, OFF when it is
\* below power_off_threshold, unchanged in between
MachineFollowsThresholds ==
    \A i \in DOMAIN det.states :
        LET before == IF i = 1 THEN power_series[1] > detector.power_on_threshold
                      ELSE det.states[i - 1]
        IN  det.states[i] =
                (IF power_series[i] > detector.power_on_threshold THEN TRUE
                 ELSE IF power_series[i] < detector.power_off_threshold THEN FALSE
                 ELSE before)

\* the samples at which the machine goes from ON to OFF
OffTransitions ==
    {i \in DOMAIN det.states : i > 1 /\ det.states[i - 1] /\ ~det.states[i]}

\* the first sample of the ON interval that ends at the OFF transition i
OnIntervalStart(i) ==
    CHOOSE j \in 1..(i - 1) :
        /\ \A k \in j..(i - 1) : det.states[k]
        /\ (j = 1 \/ ~det.states[j - 1])

CyclesSpan(transitions) ==
    /\ Len(det.cycles) = Cardinality(transitions)
    /\ \A i \in transitions :
          \E c \in DOMAIN det.cycles :
              /\ det.cycles[c].end_time = i
              /\ det.cycles[c].start_time = OnIntervalStart(i)
    /\ \A c \in DOMAIN det.cycles : det.cycles[c].start_time < det.cycles[c].end_time

\* C17 as stated: detect_cycles runs the two-threshold machine and emits
\* exactly one CycleEvent per ON->OFF transition of it, spanning the ON
\* interval, with start_time < end_time; a trailing ON interval is not
\* emitted and an empty or single-sample series gives an empty list.
C17_OneCyclePerOnOffTransition ==
    det.op = "detect_cycles" =>
        IF Len(power_series) < 2 THEN det.cycles = <<>>
        ELSE MachineFollowsThresholds /\ CyclesSpan(OffTransitions)

\* C17 amended: one CycleEvent per ON->OFF transition whose ON interval
\* began with an OFF->ON transition inside the series, from the first ON
\* sample to the first OFF sample; an ON interval already running at the
\* first sample is not emitted, nor is a trailing one.
C17_OneCyclePerObservedOnInterval ==
    det.op = "detect_cycles" =>
        IF Len(power_series) < 2 THEN det.cycles = <<>>
        ELSE /\ MachineFollowsThresholds
             /\ CyclesSpan({i \in OffTransitions : OnIntervalStart(i) > 1})

\* a cycle that a sample between the two thresholds keeps ON
C17_Witness ==
    /\ det.op = "detect_cycles"
    /\ Len(det.cycles) = 1
    /\ det.cycles[1].duration_minutes = 2
    /\ power_series[det.cycles[1].start_time + 1] <= detector.power_on_threshold
    /\ power_series[det.cycles[1].start_time + 1] >= detector.power_off_threshold

AlternatingAboveOn ==
    /\ Len(power_series) >= 3
    /\ \A i \in DOMAIN power_series :
          /\ power_series[i] > detector.power_on_threshold
          /\ i >= 2 => power_series[i] # power_series[i - 1]
          /\ i >= 3 => power_series[i] = power_series[i - 2]

C19_InstabilityScoreWeights ==
    det.op = "calculate_instability_score" =>
        \A i \in DOMAIN det.scores :
            LET without == (4 * det.std_score[i] + 4 * det.amp_score[i]) \div 10
                claimed == (4 * det.std_score[i] + 4 * det.amp_score[i]
                            + 2 * det.freq_score[i]) \div 10
            IN  /\ det.scores[i] = (IF claimed > 1000 THEN 1000 ELSE claimed)
                /\ det.scores[i] >= 0
                /\ det.scores[i] <= 1000
                /\ det.scores[i] - without <= 200

\* C20: for a power series that stays within about 1 % of a constant level
\* above the on-threshold, after at least 10 update_power calls the
\* Observer reports cycling_risk < 0.3, an instability score < 0.3 and
\* is_cycling = false.
C20_SteadyPowerLowRisk ==
    ( /\ Len(_power_history) >= 10
      /\ \A i \in DOMAIN _power_history :
            /\ _power_history[i] > detector.power_on_threshold
            /\ Abs(_power_history[i] - 1200) * 100 <= 1200 )
    => ( /\ observer.cycling_risk < 30
         /\ observer._instability_score < 300
         /\ ~observer.is_cycling )

\* C21: for every constant power series longer than the rolling window the
\* instability score is 0 at every point, detect_cycles and
\* detect_fluctuations return empty lists, and an Observer fed a constant
\* series of at least 10 samples reports cycling_risk < 0.3 at every level.
C21_ConstantSeriesIsStable ==
    /\ ( /\ Constant(power_series)
         /\ Len(power_series) > detector.window_minutes )
       => ( /\ det.op = "calculate_instability_score"
                 => \A i \in DOMAIN det.scores : det.scores[i] = 0
            /\ det.op = "detect_cycles" => det.cycles = <<>>
            /\ det.op = "detect_fluctuations"
                 => (det.events = <<>> /\ det.cycles = <<>>) )
    /\ ( /\ Constant(_power_history)
         /\ Len(_power_history) >= 10 )
       => observer.cycling_risk < 30

\* a constant 300 W (inside the former 150-450 W band), scored and observed
C21_Witness ==
    /\ Len(power_series) > detector.window_minutes
    /\ power_series[1] = 300
    /\ det.op = "calculate_instability_score"
    /\ Len(det.scores) = Len(power_series)
    /\ Len(_power_history) >= 10
    /\ _power_history[1] = 300
    /\ observer.power_consumption = 300
    /\ observer.last_update >= 10

\* ---- detect_fluctuations: the runs of unstable samples ----------------------
UnstableAt(i) == det.scores[i] > detector.instability_threshold

\* a..b is a maximal run of samples scored above the threshold
MaximalUnstableRun(a, b) ==
    /\ a <= b
    /\ \A i \in a..b : UnstableAt(i)
    /\ (a = 1 \/ ~UnstableAt(a - 1))
    /\ (b = Len(power_series) \/ ~UnstableAt(b + 1))

\* C22: every FluctuationEvent returned by detect_fluctuations covers a
\* maximal contiguous run of samples whose score exceeds
\* instability_threshold and during which the power is above the
\* on-threshold; runs that touch the first or the last index are reported.
C22_EventsAreUnstableRunsWhileOn ==
    det.op = "detect_fluctuations" =>
        /\ \A e \in DOMAIN det.events :
              /\ MaximalUnstableRun(det.events[e].start_time, det.events[e].end_time)
              /\ \A i \in det.events[e].start_time..det.events[e].end_time :
                    power_series[i] > detector.power_on_threshold
        /\ \A a, b \in DOMAIN power_series :
              ( /\ MaximalUnstableRun(a, b)
                /\ (a = 1 \/ b = Len(power_series))
                /\ \A i \in a..b : power_series[i] > detector.power_on_threshold )
              => \E e \in DOMAIN det.events :
                    /\ det.events[e].start_time = a
                    /\ det.events[e].end_time = b

\* ---- update_unit ------------------------------------------------------------
UnitFields == {"entity_id", "is_on", "current_temp", "target_temp", "fan_mode", "hvac_mode"}

\* the unit as it was before the call, a fresh UnitStatus when it is unknown
UnitBefore(name) ==
    IF name \in DOMAIN observer.units THEN observer.units[name] ELSE UnitStatus(name, "")

\* C23: update_unit creates the unit when it is unknown and otherwise
\* overwrites exactly the fields that are present in the partial update,
\* leaving every absent field at its previous value; two updates that set
\* different fields of the same unit commute.
C23_UpdateUnitPerFieldLastWriteWins ==
    \A name \in DOMAIN indoor_units :
        /\ \A data \in UnitUpdates(name) :
              LET after == UpdatedUnits(observer.units, name, data)
              IN  /\ DOMAIN after = DOMAIN observer.units \cup {name}
                  /\ after[name].name = name
                  /\ \A f \in UnitFields :
                        after[name][f] = IF f \in DOMAIN data THEN data[f]
                                         ELSE UnitBefore(name)[f]
                  /\ \A n \in DOMAIN observer.units \ {name} :
                        after[n] = observer.units[n]
        /\ \A d1, d2 \in UnitUpdates(name) :
              DOMAIN d1 \cap DOMAIN d2 = {}
              => UpdatedUnits(UpdatedUnits(observer.units, name, d1), name, d2)
                   = UpdatedUnits(UpdatedUnits(observer.units, name, d2), name, d1)

\* ---- Observer.update_power ---------------------------------------------------
\* the step is a call of update_power
UpdatePowerCalled == observer'.last_update # observer.last_update

\* C24: while the rolling window holds fewer than 10 samples, update_power
\* updates power_consumption and last_update but leaves is_cycling,
\* cycling_risk, the instability score and recent_jumps as they were.
C24_ShortWindowKeepsAnalysis ==
    [][ (UpdatePowerCalled /\ Len(_power_history') < 10)
        => ( /\ observer'.power_consumption = _power_history'[Len(_power_history')]
             /\ observer'.last_update = observer.last_update + 1
             /\ observer'.is_cycling = observer.is_cycling
             /\ observer'.cycling_risk = observer.cycling_risk
             /\ observer'._instability_score = observer._instability_score
             /\ observer'._recent_jumps = observer._recent_jumps ) ]_vars

\* nine samples that change every minute, and nothing reported yet
C24_Witness ==
    /\ Len(_power_history) = 9
    /\ \A i \in 2..9 : _power_history[i] # _power_history[i - 1]
    /\ observer.power_consumption = _power_history[9]
    /\ observer.last_update = 9
    /\ ~observer.is_cycling
    /\ observer.cycling_risk = 0
    /\ observer._recent_jumps = <<>>

\* an ON interval of the window that began and ended inside it and lasted
\* less than 10 minutes: OFF at a - 1, ON from a to b - 1, OFF at b
ShortCycleInWindow ==
    LET on == States(detector, _power_history)
    IN  \E a, b \in DOMAIN _power_history :
            /\ 1 < a
            /\ a < b
            /\ b - a < 10
            /\ ~on[a - 1]
            /\ \A i \in a..(b - 1) : on[i]
            /\ ~on[b]

\* C25: after every update_power call on a window of at least 10 samples,
\* is_cycling is true if and only if a short on/off cycle (< 10 minutes)
\* was detected in the window, or a fluctuation episode was found, or the
\* instability score exceeds 0.5; cycling_risk lies in [0, 1].
C25_IsCyclingIffAnySource ==
    Len(_power_history) >= 10 =>
        /\ observer.is_cycling
             <=> ( \/ ShortCycleInWindow
                   \/ detect_fluctuations(detector, _power_history) # <<>>
                   \/ observer._instability_score > 500 )
        /\ observer.cycling_risk >= 0
        /\ observer.cycling_risk <= 100

\* on for two minutes, off for two minutes: a short cycle is in the window
C25_Witness ==
    /\ Len(_power_history) >= 10
    /\ ShortCycleInWindow
    /\ observer.is_cycling
    /\ observer.last_update = Len(_power_history)

\* a window that is not reported as cycling: the compressor stays off
C25_WitnessQuiet ==
    /\ Len(_power_history) >= 10
    /\ ~observer.is_cycling
    /\ observer.last_update = Len(_power_history)

\* ---- the rolling window ------------------------------------------------------
\* C26: after any sequence of update_power calls the window holds at most
\* 120 samples, exactly the most recent min(n, 120) in arrival order.
\* (observer.last_update counts the calls, the n-th sample is RampPower(n).)
C26_WindowIsMostRecentSamples ==
    LET n == observer.last_update
    IN  /\ Len(_power_history) <= 120
        /\ Len(_power_history) = Min2(n, 120)
        /\ \A i \in DOMAIN _power_history :
              _power_history[i] = RampPower(n - Len(_power_history) + i)

\* C26, second part: no other operation (update_unit, get_summary) changes
\* the window.
C26_OnlyUpdatePowerChangesWindow ==
    [][ _power_history' # _power_history => UpdatePowerCalled ]_vars

\* C26: both parts
C26_RollingWindowFifo ==
    []C26_WindowIsMostRecentSamples /\ C26_OnlyUpdatePowerChangesWindow

\* two samples have been evicted, a unit has reported, the dashboard was read
C26_Witness ==
    /\ observer.last_update = 122
    /\ Len(_power_history) = 120
    /\ _power_history[1] = RampPower(3)
    /\ "wohnzimmer" \in DOMAIN observer.units
    /\ summary # NoSummary

\* ---- C27 --------------------------------------------------------------------
\* the history a call was made on lacks samples or time span
InsufficientHistory(call) ==
    call.samples < 1000 \/ call.span < 24 * 60

\* C27: check_data_sufficiency answers true only for a history of at least
\* 1000 samples that spans at least 24 hours, and gives a message with
\* either answer; analyze on a history that lacks one of the two raises
\* nothing and returns sufficient_data = false, no regions and no
\* min_stable_power.
C27_InsufficientHistoryIsReported ==
    /\ ana.op = "check_data_sufficiency" =>
          /\ ana.result.sufficient => ~InsufficientHistory(ana)
          /\ ana.result.message # ""
    /\ (ana.op = "analyze" /\ InsufficientHistory(ana)) =>
          /\ ~ana.raised
          /\ ~ana.result.sufficient_data
          /\ ana.result.regions = <<>>
          /\ ana.result.min_stable_power = NoMinStablePower

\* analyze was called on 1000 or more samples that span less than a day
C27_Witness ==
    /\ ana.op = "analyze"
    /\ ana.samples >= 1000
    /\ ana.span < 24 * 60
    /\ ~ana.result.sufficient_data
    /\ ana.result.recommendation = <<"Nur h Daten.">>

\* ---- C28 --------------------------------------------------------------------
\* the regions of a result, and those classified stable
RegionsOf(result) == {result.regions[i] : i \in DOMAIN result.regions}

StableRegionsOf(result) == {r \in RegionsOf(result) : r.mark = "Stabil"}

\* every reading of the analysed history lies within 50 W of 500 W
StableAround500(call) == call.min_power >= 450 /\ call.max_power <= 550

\* C28: a min_stable_power that analyze returns is at most the highest
\* power of some region classified stable, equals the highest power of
\* the history only if every region is classified stable, and is below
\* 700 W for a history that stays around 500 W.
C28_MinStablePowerWithinStableRegion ==
    (/\ ana.op = "analyze"
     /\ ana.result.min_stable_power # NoMinStablePower) =>
        /\ \E r \in StableRegionsOf(ana.result) :
              ana.result.min_stable_power <= 2000 * r.power_range[2]
        /\ ana.result.min_stable_power = 2000 * ana.max_power =>
              StableRegionsOf(ana.result) = RegionsOf(ana.result)
        /\ StableAround500(ana) => ana.result.min_stable_power < 2000 * 700

\* ---- C29 --------------------------------------------------------------------
\* a step in which an operation of the core ran: update_power counts the
\* reading, update_unit changes a unit, get_summary fills the summary, and
\* should_act, decide_action and execute_action leave their call in ret
CoreOperationStep ==
    \/ UpdatePowerCalled
    \/ observer'.units # observer.units
    \/ summary' # summary
    \/ (ret' # ret /\ ret'.op \in {"should_act", "decide_action", "execute_action"})

\* the callbacks of the app that supervise the mode
SupervisingCallbacks == {"_determine_initial_mode", "_update_analysis", "_train_model"}

\* C29: no operation of the core (update_power, update_unit, get_summary,
\* should_act, decide_action, execute_action) changes OptimizerStatus.mode;
\* a step that changes the mode is a callback of the supervising app.
C29_NoCoreOperationChangesMode ==
    [][(CoreOperationStep => observer'.mode = observer.mode)
       /\ (observer'.mode # observer.mode =>
              /\ app'.callback \in SupervisingCallbacks
              /\ ~CoreOperationStep)]_vars

\* the mode has left OBSERVATION and every kind of core operation has run
\* since: a reading was taken, a unit is known, an action was executed and
\* the summary was read
C29_Witness ==
    /\ observer.mode = "active"
    /\ observer.last_update > 0
    /\ observer.units # <<>>
    /\ ret.op = "execute_action"
    /\ summary # NoSummary
    /\ summary.mode = "active"

\* ---- C30 --------------------------------------------------------------------
\* the power sensor of some outdoor unit reports no number
PowerSensorUnavailable ==
    \E i \in DOMAIN outdoor_units : sensors[outdoor_units[i]].kind \in Unavailable

\* a cycle that ran while a power sensor was unavailable was skipped:
\* no state, no decision, no action
UnavailablePowerSkipsCycle ==
    (cyc.path # "idle" /\ PowerSensorUnavailable) =>
        /\ cyc.path = "unavailable"
        /\ cyc.state = <<>>
        /\ cyc.actions = <<>>

\* the Observer's window grows only by the number the listened sensor
\* now reports
OnlyReportedPowerIsAppended ==
    _power_history' # _power_history =>
        /\ sensors'[ListenedSensor].kind = "num"
        /\ _power_history' = Append(_power_history, sensors'[ListenedSensor].val)
        /\ observer'.power_consumption = sensors'[ListenedSensor].val

\* C30: when a power sensor reports 'unknown', 'unavailable' or None the
\* control cycle is skipped (get_current_state is None, nothing is decided
\* or executed), and no value stands in for the missing reading, neither
\* as the cycle's current power nor in the Observer's rolling window.
C30_UnavailablePowerSkipsCycle ==
    []UnavailablePowerSkipsCycle /\ [][OnlyReportedPowerIsAppended]_vars

\* ------------------------------------------------------------------------
\* C31: control-loop ticks are serialized with respect to the cooldown
\* bookkeeping: of two overlapping ticks at most one passes should_act and
\* executes an action within one MIN_ACTION_INTERVAL, i.e. an action is
\* executed successfully only when MIN_ACTION_INTERVAL has passed since the
\* last successful one.
\* ------------------------------------------------------------------------
ActionExecuted == stats'.actions_taken > stats.actions_taken

C31_TicksSerialized ==
    [][ActionExecuted /\ succeeded_at # NoTime
          => clock - succeeded_at >= MIN_ACTION_INTERVAL]_vars

\* ------------------------------------------------------------------------
\* C34: the control loop invokes the action callback only in a tick that
\* saw the mode ACTIVE and got TRUE from should_act; in OBSERVATION,
\* LEARNING and MANUAL no callback is invoked.
\* ------------------------------------------------------------------------
\* invocation k leaves execute_action and the callback was called in it
CallbackInvokedBy(k) ==
    /\ app.loop[k].pc = "decided"
    /\ app'.loop[k].pc = "idle"
    /\ ret'.callback # "not_called"

C34_CallbackOnlyInActiveMode ==
    [][\A k \in Ticks :
          CallbackInvokedBy(k)
              => /\ observer.mode = "active"
                 /\ app.loop[k].mode = "active"
                 /\ app.loop[k].answer]_vars

\* a tick in LEARNING mode was turned away although should_act lets LEARNING
\* act, and after the training a tick in ACTIVE mode invoked the callback
C34_Witness ==
    \E k \in Ticks, j \in Ticks :
        /\ app.loop[k].pc = "idle"
        /\ app.loop[k].mode = "learning"
        /\ should_act("learning", NoTime, 0)
        /\ app.loop[j].pc = "idle"
        /\ app.loop[j].mode = "active"
        /\ app.loop[j].answer
        /\ app.loop[j].action.action_type # "no_action"
        /\ ret.op = "execute_action"
        /\ ret.callback = "true"

\* ------------------------------------------------------------------------
\* C32: the detection result is published atomically: every value a control
\* cycle reads comes from one and the same detection run, so the zones
\* log_episode writes are the zones the cycle decided with.
\* ------------------------------------------------------------------------
C32_CycleReadsOneDetectionRun ==
    episode.logged # <<>> => episode.logged = episode.decided

\* ------------------------------------------------------------------------
\* C33: after every control cycle the daily cycle counter is the number of
\* pairs of consecutive power readings with previous < 700 W and current
\* > 700 W counted since the first sensor update of the current date, the
\* counters being reset on that update before the cycle is counted.
\* ------------------------------------------------------------------------
CycleReturned == episode.decided # <<>> /\ episode.logged # <<>>

\* the rising pairs whose second reading was taken on `date`
RisingPairs(readings, date) ==
    Cardinality({i \in 2..Len(readings) :
                    /\ readings[i].date = date
                    /\ readings[i - 1].power < 700
                    /\ readings[i].power > 700})

C33_DailyCyclesCountRisingPairs ==
    CycleReturned
        => daily._daily_cycles
               = RisingPairs(daily.readings, daily.readings[Len(daily.readings)].date)

\* the reset holds where the counters are updated: after a cycle that
\* decided, the counters belong to the current date and the actions counted
\* are at least this cycle's
C33_CountersResetBeforeCounting ==
    CycleReturned /\ cyc.path = "decided"
        => /\ daily._daily_reset_date = today
           /\ daily._daily_actions >= Len(cyc.actions)
           /\ (Len(daily.readings) = 1 \/
                  daily.readings[Len(daily.readings) - 1].date # today)
                 => daily._daily_actions = Len(cyc.actions)

\* ------------------------------------------------------------------------
\* C35: a control cycle whose power lies inside an unstable zone and that is
\* not an emergency decides and executes no action and leaves
\* last_action_time of every room unchanged.
\* ------------------------------------------------------------------------
\* the power lies between min and max of one of the zones
InsideUnstableZone(power) ==
    \E zone \in {unstable_zones[i] : i \in DOMAIN unstable_zones} :
        zone.min <= power /\ power <= zone.max

\* this step is a control cycle that read a state
CycleDecides == cyc.path = "idle" /\ cyc'.path \in {"waiting", "decided"}

C35_UnstableZoneWaits ==
    [][CycleDecides /\ InsideUnstableZone(cyc'.state.power) /\ ~cyc'.is_emergency
          => /\ cyc'.actions = <<>>
             /\ cyc'.path = "waiting"
             /\ last_action_time' = last_action_time]_vars

\* a cycle waited in the second of two detected zones although both rooms
\* were cold and past their cooldown, and after an earlier cycle had acted
C35_Witness ==
    /\ cyc.path = "waiting"
    /\ Len(unstable_zones) = 2
    /\ ~ (unstable_zones[1].min <= cyc.state.power
            /\ cyc.state.power <= unstable_zones[1].max)
    /\ ~cyc.is_emergency
    /\ \A room \in Rooms : cyc.state.rooms[room].delta = -20
    /\ \E room \in Rooms : last_action_time[room] # NoTime

\* ------------------------------------------------------------------------
\* C36: in one control cycle decide_actions emits at most one action per
\* room, no turn_on for a room that is on and no turn_off for a room that is
\* off, so no two of the actions left by the cap are for the same room.
\* ------------------------------------------------------------------------
\* the room an action is for, as the cycle read it
RoomOf(a) == cyc.state.rooms[a.room]

C36_OneActionPerRoom ==
    cyc.path = "decided"
        => /\ \A i \in DOMAIN cyc.actions, j \in DOMAIN cyc.actions :
                  cyc.actions[i].room = cyc.actions[j].room => i = j
           /\ \A i \in DOMAIN cyc.actions :
                  /\ cyc.actions[i].action_type = "turn_on" => ~RoomOf(cyc.actions[i]).is_on
                  /\ cyc.actions[i].action_type = "turn_off" => RoomOf(cyc.actions[i]).is_on

\* ------------------------------------------------------------------------
\* C37: after initialization the supervising app only moves the mode
\* forward: OBSERVATION is left only by an analysis that reported sufficient
\* data, ACTIVE is entered only with a training that succeeded, no step
\* moves the mode backward, and an analysis that reports insufficient data
\* leaves the mode unchanged.
\* ------------------------------------------------------------------------
ModeRank(mode) ==
    IF mode = "observation" THEN 0 ELSE IF mode = "learning" THEN 1 ELSE 2

\* the last analysis of the hourly callback, and what it reported
AnalysisReported(call, sufficient) ==
    call.op = "analyze" /\ call.result.sufficient_data = sufficient

C37_ModeOnlyMovesForward ==
    [][app.started
          => /\ ModeRank(observer'.mode) >= ModeRank(observer.mode)
             /\ observer.mode = "observation" /\ observer'.mode # "observation"
                   => /\ app'.callback = "_update_analysis"
                      /\ AnalysisReported(ana', TRUE)
             /\ observer.mode # "active" /\ observer'.mode = "active"
                   => /\ app'.callback \in {"_update_analysis", "_train_model"}
                      /\ predictor'.is_trained
             /\ app'.callback = "_update_analysis" /\ AnalysisReported(ana', FALSE)
                   => observer'.mode = observer.mode]_vars

\* the daily training has brought the app to ACTIVE after an analysis of a
\* sufficient history, with readings taken on the way
C37_Witness ==
    /\ observer.mode = "active"
    /\ app.callback = "_train_model"
    /\ AnalysisReported(ana, TRUE)
    /\ predictor.is_trained
    /\ observer.last_update > 0

\* ------------------------------------------------------------------------
\* C38: at startup _determine_initial_mode selects ACTIVE when the last 24
\* hours of history are available and a trained model is loaded, LEARNING
\* when the history is available but no model is loaded; ACTIVE and LEARNING
\* are reachable initial modes for a sensor that delivered 24 hours of data.
\* ------------------------------------------------------------------------
\* _determine_initial_mode ran last and its query returned rows that span
\* the last 24 hours
StartedWithFullDay ==
    /\ app.callback = "_determine_initial_mode"
    /\ ana.op = "check_data_sufficiency"
    /\ ana.span >= 60 * MIN_HOURS_FOR_ANALYSIS

C38_InitialModeFromHistoryAndModel ==
    StartedWithFullDay
        => observer.mode = IF predictor.is_trained THEN "active" ELSE "learning"

\* ------------------------------------------------------------------------
\* C39: under fair scheduling of the hourly analysis and the daily training,
\* if a power sensor is configured, the history becomes sufficient and a
\* training succeeds in the end, the mode eventually becomes ACTIVE and
\* stays ACTIVE.
\* ------------------------------------------------------------------------
C39_EventuallyActiveForGood ==
    app.power_sensor => <>[](observer.mode = "active")

\* ACTIVE was reached from OBSERVATION with no model loaded at the start:
\* the analysis saw a sufficient history and a training stored a model
C39_Witness ==
    /\ observer.mode = "active"
    /\ app.power_sensor
    /\ AnalysisReported(ana, TRUE)
    /\ ana.samples >= MIN_DATAPOINTS
    /\ predictor.is_trained
    /\ app.callback = "_train_model"

\* ------------------------------------------------------------------------
\* C40: update_power is atomic with respect to failure: when the analysis
\* raises, the rolling window and the status are left as before the call,
\* and the next update_power with an in-order timestamp succeeds.
\* ------------------------------------------------------------------------
\* the step is an update_power call that raised
UpdatePowerRaised == upd' # upd /\ upd'.raised

\* the step is an update_power call with an in-order timestamp that
\* follows a call that raised
InOrderAfterFailure ==
    /\ upd' # upd
    /\ upd.raised
    /\ upd'.timestamp >= MaxSeq(_power_times)

C40_FailedUpdateLeavesNoTrace ==
    [][ /\ UpdatePowerRaised
            => /\ _power_history' = _power_history
               /\ _power_times' = _power_times
               /\ observer' = observer
        /\ InOrderAfterFailure => ~upd'.raised ]_vars

\* the late sample stays in the window, which keeps every later analysis
\* from running: an in-order update_power raised as well
C40_LateSampleKept ==
    /\ upd.raised
    /\ upd.timestamp = MaxSeq(_power_times)
    /\ LateSamples # {}
    /\ observer.power_consumption = upd.value
    /\ observer.last_update = upd.timestamp
====
